---- MODULE Spec2Model ----
(***************************************************************************)
(* A model of the AI Decision Firewall (package adf): the decision         *)
(* pipeline of FirewallInterceptor.check, the verdict ladder of            *)
(* VerdictEngine.determine_verdict, the PolicyManager singleton, and the   *)
(* audit / metrics / learning side effects.                                *)
(*                                                                         *)
(* Numbers.  Confidences are integers in hundredths (0..100).  A risk      *)
(* score is an integer numerator over RiskScale: the product               *)
(*   uncertainty (1/100) * action impact (1/100) * evidence factor (1/10)  *)
(*   * claim factor (1/100)                                                *)
(* kept exact.  Thresholds are in hundredths and compared with RiskGe /    *)
(* RiskLt.  (The source uses IEEE doubles; on the hundredths grid the      *)
(* only threshold comparison that rounds differently from the exact        *)
(* product is 0.32 * 0.5 * 1.5 * 1.25 against 0.3, an evidence-failed case *)
(* in which the 0.3 threshold is never consulted.)                         *)
(*                                                                         *)
(* Text.  An ai_output is the sequence of its sentences (as split by       *)
(* SENTENCE_DELIMITERS) plus the set of rule patterns the whole text       *)
(* matches.  A sentence carries its letters up to case (id), whether it    *)
(* has upper-case letters, its number of whitespace-separated words, and   *)
(* which of the parser's regular expressions matches it (kind).  Messages  *)
(* built with f-strings are tuples of their parts; None is NoneValue.      *)
(***************************************************************************)
EXTENDS Integers, Sequences, FiniteSets, TLC

VARIABLES
    ENTERPRISE_MODE,   \* config.ENTERPRISE_MODE, read once from the environment
    policy_manager,    \* compliance.policy._policy_manager (module-level singleton)
    pc,                \* position of the single caller thread
    request,           \* the FirewallRequest of the check in progress / last check
    response,          \* the FirewallResponse built by check (returned when pc = "check_returned")
    audit_file,        \* AUDIT_LOG_FILE: the JSON lines written so far
    metrics,           \* FirewallInterceptor.metrics.metrics (in memory)
    metrics_file,      \* METRICS_FILE on disk
    memory,            \* FirewallInterceptor.memory.memory (in memory)
    memory_file,       \* MEMORY_FILE on disk
    verdict_call,      \* a direct call of VerdictEngine.determine_verdict: its arguments and result
    http_request,      \* main.py: the HTTP request served last (endpoint and body)
    http_response,     \* main.py: the status and body answered to it
    metrics_counter,   \* main.metrics_counter.metrics (in memory)
    learning_memory,   \* main.learning_memory.memory (in memory)
    threads,           \* caller threads running check concurrently: position and locals of each
    swapper,           \* a thread calling set_policy_mode: position and the manager it constructs
    adaptive_thresholds, \* PolicyUpdater: what get_adaptive_thresholds returned last
    task_queue,        \* baby_agi: BabyAGI.task_queue (tasks in insertion order, completed and failed ids)
    agent              \* baby_agi: the BabyAGI object and the position of its run() call

\* the state of the HTTP adapter and of the concurrent callers
adapter_vars == <<http_request, http_response, metrics_counter, learning_memory>>
thread_vars == <<threads, swapper>>

\* the state of the components used on their own
standalone_vars == <<adaptive_thresholds, task_queue, agent>>

vars == <<ENTERPRISE_MODE, policy_manager, pc, request, response, audit_file,
          metrics, metrics_file, memory, memory_file, verdict_call,
          http_request, http_response, metrics_counter, learning_memory, threads, swapper,
          adaptive_thresholds, task_queue, agent>>

----------------------------------------------------------------------------
(* Bounds of the model *)

MaxFactual == 6
MaxNonFactual == 1
MaxSources == 2
MaxChecks == 2
MaxThreads == 2
MaxSwaps == 2
MaxOverrides == 1
MaxLearningBlocks == 2
MaxLearningOverrides == 10
MaxIterations == 6

----------------------------------------------------------------------------
(* Program constants (hundredths) *)

CONFIDENCE_THRESHOLD_EVIDENCE_REQUIRED == 60
CONFIDENCE_THRESHOLD_HIGH == 80
CONFIDENCE_THRESHOLD_LOW == 30
RISK_THRESHOLD_LOW == 30
RISK_THRESHOLD_MEDIUM == 60
RISK_THRESHOLD_HIGH == 80
DEFAULT_ACTION_IMPACT == 50
MIN_FALSE_POSITIVES_FOR_RELAX == 10
MIN_FALSE_NEGATIVES_FOR_STRICT == 5
HIGH_IMPACT_CONFIDENCE_THRESHOLD == 80

ACTION_IMPACT == [answer |-> 20, email |-> 50, trade |-> 90, execute_code |-> 95]

HIGH_IMPACT_ACTIONS == {"trade", "execute_code"}

RiskScale == 100 * 100 * 10 * 100

RiskGe(risk, hundredths) == risk * 100 >= hundredths * RiskScale
RiskLt(risk, hundredths) == risk * 100 < hundredths * RiskScale

NoneValue == <<"None">>

\* None where an object (a record) is expected
NoObject == [none |-> TRUE]

Min(a, b) == IF a <= b THEN a ELSE b
Max(a, b) == IF a >= b THEN a ELSE b

----------------------------------------------------------------------------
(* models.py *)

IntendedAction == {"answer", "email", "trade", "execute_code"}

Verdict == {"ALLOW", "BLOCK", "REQUIRE_EVIDENCE", "REQUIRE_HUMAN_REVIEW"}

\* str.lower() on the action tokens that occur in the model
Lower(s) ==
    CASE s = "ANSWER" -> "answer"
      [] s = "Email" -> "email"
      [] s = "TRADE" -> "trade"
      [] s = "Execute_Code" -> "execute_code"
      [] OTHER -> s

\* FirewallRequest.validate_action: the stored action, or "ValueError"
validate_action(v) ==
    IF Lower(v) \notin IntendedAction THEN "ValueError" ELSE Lower(v)

----------------------------------------------------------------------------
(* compliance/policy.py *)

PolicyMode == {"GENERAL_AI", "FINANCIAL_SERVICES", "HEALTHCARE", "LEGAL"}

\* PolicyManager whose GENERAL_AI mode lists no mandatory review action
PolicyManager_general_ungoverned(mode) ==
    CASE mode = "GENERAL_AI" ->
           [mode |-> mode, mandatory_review_actions |-> {},
            confidence_threshold_evidence_required |-> 60, risk_threshold_medium |-> 60]
      [] mode = "FINANCIAL_SERVICES" ->
           [mode |-> mode, mandatory_review_actions |-> {"trade", "execute_code"},
            confidence_threshold_evidence_required |-> 70, risk_threshold_medium |-> 50]
      [] mode = "HEALTHCARE" ->
           [mode |-> mode, mandatory_review_actions |-> {"medical", "execute_code", "trade"},
            confidence_threshold_evidence_required |-> 80, risk_threshold_medium |-> 40]
      [] mode = "LEGAL" ->
           [mode |-> mode, mandatory_review_actions |-> {"legal", "execute_code", "trade"},
            confidence_threshold_evidence_required |-> 80, risk_threshold_medium |-> 40]

\* PolicyManager whose HEALTHCARE mode leaves trade out of the mandatory review actions
PolicyManager_healthcare_without_trade(mode) ==
    CASE mode = "GENERAL_AI" ->
           [mode |-> mode, mandatory_review_actions |-> {"trade", "execute_code"},
            confidence_threshold_evidence_required |-> 60, risk_threshold_medium |-> 60]
      [] mode = "FINANCIAL_SERVICES" ->
           [mode |-> mode, mandatory_review_actions |-> {"trade", "execute_code"},
            confidence_threshold_evidence_required |-> 70, risk_threshold_medium |-> 50]
      [] mode = "HEALTHCARE" ->
           [mode |-> mode, mandatory_review_actions |-> {"medical", "execute_code"},
            confidence_threshold_evidence_required |-> 80, risk_threshold_medium |-> 40]
      [] mode = "LEGAL" ->
           [mode |-> mode, mandatory_review_actions |-> {"legal", "execute_code", "trade"},
            confidence_threshold_evidence_required |-> 80, risk_threshold_medium |-> 40]

\* PolicyManager.__init__ with _setup_policies
PolicyManager(mode) ==
    CASE mode = "GENERAL_AI" ->
           [mode |-> mode, mandatory_review_actions |-> {"trade", "execute_code"},
            confidence_threshold_evidence_required |-> 60, risk_threshold_medium |-> 60]
      [] mode = "FINANCIAL_SERVICES" ->
           [mode |-> mode, mandatory_review_actions |-> {"trade", "execute_code"},
            confidence_threshold_evidence_required |-> 70, risk_threshold_medium |-> 50]
      [] mode = "HEALTHCARE" ->
           [mode |-> mode, mandatory_review_actions |-> {"medical", "execute_code", "trade"},
            confidence_threshold_evidence_required |-> 80, risk_threshold_medium |-> 40]
      [] mode = "LEGAL" ->
           [mode |-> mode, mandatory_review_actions |-> {"legal", "execute_code", "trade"},
            confidence_threshold_evidence_required |-> 80, risk_threshold_medium |-> 40]

\* PolicyManager.requires_mandatory_review: <<requires_review, reason>>
requires_mandatory_review(pm, intended_action) ==
    IF Lower(intended_action) \in pm.mandatory_review_actions
    THEN <<TRUE, <<"Governance rule: mandatory human review", intended_action, pm.mode>>>>
    ELSE <<FALSE, <<>>>>

----------------------------------------------------------------------------
(* firewall/claim_parser.py *)

\* the text of a sentence: its letters up to case, and its case
SentenceText(s) == [id |-> s.id, upper |-> s.upper]

\* str.lower() on a sentence text
LowerText(t) == [t EXCEPT !.upper = FALSE]

RECURSIVE ParseSentences(_, _)
ParseSentences(sentences, overall_confidence) ==
    IF sentences = <<>> THEN <<>>
    ELSE LET sentence == Head(sentences)
             \* factual_regex.search, else the digit heuristic
             is_factual == (sentence.kind = "pattern") \/ (sentence.kind = "digit")
             rest == ParseSentences(Tail(sentences), overall_confidence)
         IN  IF sentence.words < 3
             THEN rest
             ELSE <<[text |-> SentenceText(sentence),
                     is_factual |-> is_factual,
                     confidence |-> overall_confidence]>> \o rest

\* ClaimParser.parse
parse(text, overall_confidence) ==
    IF text.sentences = <<>> THEN <<>>
    ELSE ParseSentences(text.sentences, overall_confidence)

----------------------------------------------------------------------------
(* firewall/confidence.py *)

\* ConfidenceChecker.calculate_uncertainty
calculate_uncertainty(confidence) == 100 - confidence

\* validate_confidence_alignment comparing the overall confidence with the high threshold
validate_confidence_alignment_high_threshold(overall_confidence, claims) ==
    IF claims = <<>> THEN <<TRUE, "No claims to validate">>
    ELSE LET high_confidence_factual ==
                 SelectSeq(claims, LAMBDA c :
                     c.is_factual /\ c.confidence > CONFIDENCE_THRESHOLD_EVIDENCE_REQUIRED)
         IN  IF high_confidence_factual # <<>>
                /\ overall_confidence > CONFIDENCE_THRESHOLD_HIGH
             THEN <<FALSE, "High confidence factual claims detected">>
             ELSE <<TRUE, "Confidence alignment validated">>

\* ConfidenceChecker.validate_confidence_alignment: <<is_valid, reason>>
validate_confidence_alignment(overall_confidence, claims) ==
    IF claims = <<>> THEN <<TRUE, "No claims to validate">>
    ELSE LET high_confidence_factual ==
                 SelectSeq(claims, LAMBDA c :
                     c.is_factual /\ c.confidence > CONFIDENCE_THRESHOLD_EVIDENCE_REQUIRED)
             factual_count == Len(SelectSeq(claims, LAMBDA c : c.is_factual))
         IN  IF high_confidence_factual # <<>>
                /\ overall_confidence > CONFIDENCE_THRESHOLD_EVIDENCE_REQUIRED
             THEN <<FALSE, "High confidence factual claims detected">>
             ELSE IF overall_confidence > CONFIDENCE_THRESHOLD_HIGH /\ factual_count = 0
             THEN <<TRUE, "High confidence on non-factual content is acceptable">>
             ELSE <<TRUE, "Confidence alignment validated">>

----------------------------------------------------------------------------
(* firewall/evidence.py *)

\* str.strip() on the source strings that occur in the model
Strip(s) == IF s = "   " THEN "" ELSE s

ClaimTexts(claims) == [i \in 1..Len(claims) |-> claims[i].text]

\* EvidenceChecker.check_evidence: <<has_evidence, reason, failed_claims>>
check_evidence(claims, sources_arg) ==
    LET sources == IF sources_arg = NoneValue THEN <<>> ELSE sources_arg
        high_confidence_factual ==
            SelectSeq(claims, LAMBDA c :
                c.is_factual /\ c.confidence > CONFIDENCE_THRESHOLD_EVIDENCE_REQUIRED)
        has_sources == Len(sources) > 0
        valid_sources == SelectSeq(sources, LAMBDA s : s # "" /\ Strip(s) # "")
        min_sources == Max(1, Len(high_confidence_factual) \div 3)
    IN  IF high_confidence_factual = <<>>
        THEN <<TRUE, "No high-confidence factual claims requiring evidence", <<>>>>
        ELSE IF ~has_sources
        THEN <<FALSE, "no sources provided", ClaimTexts(high_confidence_factual)>>
        ELSE IF valid_sources = <<>>
        THEN <<FALSE, "Sources provided but all are empty", ClaimTexts(high_confidence_factual)>>
        ELSE IF Len(valid_sources) < min_sources
        THEN <<FALSE, "Insufficient sources", ClaimTexts(high_confidence_factual)>>
        ELSE <<TRUE, "Evidence check passed", <<>>>>

----------------------------------------------------------------------------
(* firewall/rules.py *)

\* RulesEngine._check_unsafe_patterns: is_safe
check_unsafe_patterns(text) == "unsafe" \notin text.markers

\* RulesEngine._check_harmful_actions: is_safe
check_harmful_actions(text, action_type) ==
    IF "harmful" \in text.markers THEN FALSE
    ELSE IF action_type = "trade" /\ "large_amount" \in text.markers THEN FALSE
    ELSE IF action_type = "execute_code" /\ "system_ops" \in text.markers THEN FALSE
    ELSE TRUE

\* RulesEngine._check_contradictions: is_consistent
check_contradictions(claims) ==
    LET factual == SelectSeq(claims, LAMBDA c : c.is_factual)
        factual_claims == [i \in 1..Len(factual) |-> LowerText(factual[i].text)]
        as_set == {factual_claims[i] : i \in 1..Len(factual_claims)}
    IN  IF Len(factual_claims) > 1 /\ Len(factual_claims) # Cardinality(as_set)
        THEN FALSE
        ELSE TRUE

\* RulesEngine.check_rules: <<passed, failed_rules>>
check_rules(claims, ai_output, intended_action) ==
    LET unsafe == IF ~check_unsafe_patterns(ai_output) THEN <<"unsafe_patterns">> ELSE <<>>
        harmful == IF intended_action \in {"trade", "execute_code"}
                      /\ ~check_harmful_actions(ai_output, intended_action)
                   THEN <<"harmful_actions">> ELSE <<>>
        contra == IF ~check_contradictions(claims) THEN <<"contradictions">> ELSE <<>>
        failed_rules == unsafe \o harmful \o contra
    IN  IF failed_rules # <<>> THEN <<FALSE, failed_rules>> ELSE <<TRUE, <<>>>>

\* RulesEngine.requires_human_review_for_high_impact: <<requires_review, reason>>
requires_human_review_for_high_impact(intended_action, confidence, has_evidence) ==
    IF Lower(intended_action) \notin HIGH_IMPACT_ACTIONS
    THEN <<FALSE, <<"Not a high-impact action">>>>
    ELSE IF confidence < HIGH_IMPACT_CONFIDENCE_THRESHOLD \/ ~has_evidence
    THEN <<TRUE, <<"High-impact action requires human review", intended_action, confidence>>>>
    ELSE <<FALSE, <<"High-impact action meets confidence and evidence requirements">>>>

----------------------------------------------------------------------------
(* firewall/risk.py *)

\* calculate_risk_score without the final normalisation to the 0-1 range
calculate_risk_score_unnormalised(confidence, intended_action, claims, has_evidence) ==
    LET uncertainty == calculate_uncertainty(confidence)
        action_impact == IF Lower(intended_action) \in DOMAIN ACTION_IMPACT
                         THEN ACTION_IMPACT[Lower(intended_action)]
                         ELSE DEFAULT_ACTION_IMPACT
        factual_claims == SelectSeq(claims, LAMBDA c : c.is_factual)
        high_conf_factual == SelectSeq(factual_claims, LAMBDA c : c.confidence > 60)
        evidence_factor == IF ~has_evidence /\ factual_claims # <<>> /\ high_conf_factual # <<>>
                           THEN 15 ELSE 10
        base_risk == uncertainty * action_impact * evidence_factor
        claim_factor == Min(100 + Len(claims) * 5, 130)
    IN  base_risk * claim_factor

\* calculate_risk_score with the impact table never consulted (every action gets the default)
calculate_risk_score_default_impact(confidence, intended_action, claims, has_evidence) ==
    LET uncertainty == calculate_uncertainty(confidence)
        action_impact == DEFAULT_ACTION_IMPACT
        factual_claims == SelectSeq(claims, LAMBDA c : c.is_factual)
        high_conf_factual == SelectSeq(factual_claims, LAMBDA c : c.confidence > 60)
        evidence_factor == IF ~has_evidence /\ factual_claims # <<>> /\ high_conf_factual # <<>>
                           THEN 15 ELSE 10
        base_risk == uncertainty * action_impact * evidence_factor
        claim_factor == Min(100 + Len(claims) * 5, 130)
        risk_score == base_risk * claim_factor
    IN  Min(RiskScale, Max(0, risk_score))

\* RiskScorer.calculate_risk_score, as a numerator over RiskScale
calculate_risk_score(confidence, intended_action, claims, has_evidence) ==
    LET uncertainty == calculate_uncertainty(confidence)
        action_impact == IF Lower(intended_action) \in DOMAIN ACTION_IMPACT
                         THEN ACTION_IMPACT[Lower(intended_action)]
                         ELSE DEFAULT_ACTION_IMPACT
        factual_claims == SelectSeq(claims, LAMBDA c : c.is_factual)
        high_conf_factual == SelectSeq(factual_claims, LAMBDA c : c.confidence > 60)
        evidence_factor == IF ~has_evidence /\ factual_claims # <<>> /\ high_conf_factual # <<>>
                           THEN 15 ELSE 10
        base_risk == uncertainty * action_impact * evidence_factor
        claim_factor == Min(100 + Len(claims) * 5, 130)
        risk_score == base_risk * claim_factor
    IN  Min(RiskScale, Max(0, risk_score))

----------------------------------------------------------------------------
(* firewall/verdict.py *)

VerdictResult(verdict, reason, applied_policies, escalation_reason) ==
    [verdict |-> verdict, reason |-> reason,
     applied_policies |-> applied_policies, escalation_reason |-> escalation_reason]

\* determine_verdict_below_safety without the risk-based review of priority 4
determine_verdict_below_safety_no_risk_review(risk_score, evidence_passed, confidence_aligned, intended_action, high_impact_review_required, high_impact_review_reason) ==
    IF RiskGe(risk_score, RISK_THRESHOLD_HIGH) /\ intended_action \in {"trade", "execute_code"}
    THEN VerdictResult("BLOCK", "Critical risk score for high-impact action",
                       <<"high_risk_block">>, NoneValue)
    ELSE IF ~evidence_passed
    THEN IF RiskGe(risk_score, RISK_THRESHOLD_MEDIUM)
         THEN VerdictResult("BLOCK", "High confidence factual claims without evidence and medium+ risk",
                            <<"evidence_requirement">>, NoneValue)
         ELSE VerdictResult("REQUIRE_EVIDENCE", "High confidence factual claims require evidence",
                            <<"evidence_requirement">>, NoneValue)
    ELSE IF high_impact_review_required
    THEN VerdictResult("REQUIRE_HUMAN_REVIEW", "High-impact action requires human review",
                       <<"high_impact_policy">>, high_impact_review_reason)
    ELSE IF RiskLt(risk_score, RISK_THRESHOLD_LOW)
    THEN VerdictResult("ALLOW", "All checks passed, low risk", <<"low_risk_allow">>, NoneValue)
    ELSE VerdictResult("ALLOW", "All checks passed, acceptable risk",
                       <<"acceptable_risk_allow">>, NoneValue)

\* VerdictEngine.determine_verdict, priorities 2 to 7 and the default
determine_verdict_below_safety(risk_score, evidence_passed, confidence_aligned, intended_action, high_impact_review_required, high_impact_review_reason) ==
    \* Priority 2: high risk and critical action
    IF RiskGe(risk_score, RISK_THRESHOLD_HIGH) /\ intended_action \in {"trade", "execute_code"}
    THEN VerdictResult("BLOCK", "Critical risk score for high-impact action",
                       <<"high_risk_block">>, NoneValue)
    \* Priority 3: evidence check failed
    ELSE IF ~evidence_passed
    THEN IF RiskGe(risk_score, RISK_THRESHOLD_MEDIUM)
         THEN VerdictResult("BLOCK", "High confidence factual claims without evidence and medium+ risk",
                            <<"evidence_requirement">>, NoneValue)
         ELSE VerdictResult("REQUIRE_EVIDENCE", "High confidence factual claims require evidence",
                            <<"evidence_requirement">>, NoneValue)
    \* Priority 4: medium-high risk
    ELSE IF RiskGe(risk_score, RISK_THRESHOLD_MEDIUM)
    THEN IF intended_action \in {"trade", "execute_code"}
         THEN VerdictResult("REQUIRE_HUMAN_REVIEW", "Medium-high risk for high-impact action",
                            <<"risk_based_review">>,
                            <<"Risk score is medium-high for high-impact action", risk_score, intended_action>>)
         ELSE VerdictResult("REQUIRE_HUMAN_REVIEW", "Medium-high risk score requires review",
                            <<"risk_based_review">>,
                            <<"Risk score exceeds medium threshold", risk_score>>)
    \* Priority 5: confidence alignment, only when evidence is missing
    ELSE IF ~confidence_aligned /\ ~evidence_passed
    THEN IF RiskGe(risk_score, RISK_THRESHOLD_MEDIUM)
         THEN VerdictResult("REQUIRE_HUMAN_REVIEW",
                            "Confidence alignment issues with medium+ risk and no evidence",
                            <<"confidence_alignment_check">>,
                            <<"Confidence alignment issues detected with medium+ risk and no evidence">>)
         ELSE VerdictResult("REQUIRE_EVIDENCE", "Confidence alignment issues detected",
                            <<"confidence_alignment_check">>, NoneValue)
    \* Priority 6: high-impact action policy
    ELSE IF high_impact_review_required
    THEN VerdictResult("REQUIRE_HUMAN_REVIEW", "High-impact action requires human review",
                       <<"high_impact_policy">>, high_impact_review_reason)
    \* Default: allow
    ELSE IF RiskLt(risk_score, RISK_THRESHOLD_LOW)
    THEN VerdictResult("ALLOW", "All checks passed, low risk", <<"low_risk_allow">>, NoneValue)
    ELSE VerdictResult("ALLOW", "All checks passed, acceptable risk",
                       <<"acceptable_risk_allow">>, NoneValue)

\* determine_verdict with the safety rung tried before the governance rung
determine_verdict_safety_first(risk_score, evidence_passed, rules_passed, confidence_aligned, failed_checks, intended_action, confidence, claims, high_impact_review_required, high_impact_review_reason, governance_review_required, governance_reason) ==
    IF ~rules_passed
    THEN VerdictResult("BLOCK", "Safety rules violated", <<"safety_rules">>, NoneValue)
    ELSE IF governance_review_required
    THEN VerdictResult("REQUIRE_HUMAN_REVIEW", "Governance rule: mandatory human review required",
                       <<"mandatory_governance_review">>, governance_reason)
    ELSE determine_verdict_below_safety(risk_score, evidence_passed, confidence_aligned,
                                        intended_action, high_impact_review_required,
                                        high_impact_review_reason)

\* determine_verdict with the evidence gate tried before the safety rung
determine_verdict_evidence_first(risk_score, evidence_passed, rules_passed, confidence_aligned, failed_checks, intended_action, confidence, claims, high_impact_review_required, high_impact_review_reason, governance_review_required, governance_reason) ==
    IF governance_review_required
    THEN VerdictResult("REQUIRE_HUMAN_REVIEW", "Governance rule: mandatory human review required",
                       <<"mandatory_governance_review">>, governance_reason)
    ELSE IF ~evidence_passed
    THEN determine_verdict_below_safety(risk_score, evidence_passed, confidence_aligned,
                                        intended_action, high_impact_review_required,
                                        high_impact_review_reason)
    ELSE IF ~rules_passed
    THEN VerdictResult("BLOCK", "Safety rules violated", <<"safety_rules">>, NoneValue)
    ELSE determine_verdict_below_safety(risk_score, evidence_passed, confidence_aligned,
                                        intended_action, high_impact_review_required,
                                        high_impact_review_reason)

\* determine_verdict with the high-impact rung tried right after the safety rung
determine_verdict_high_impact_first(risk_score, evidence_passed, rules_passed, confidence_aligned, failed_checks, intended_action, confidence, claims, high_impact_review_required, high_impact_review_reason, governance_review_required, governance_reason) ==
    IF governance_review_required
    THEN VerdictResult("REQUIRE_HUMAN_REVIEW", "Governance rule: mandatory human review required",
                       <<"mandatory_governance_review">>, governance_reason)
    ELSE IF ~rules_passed
    THEN VerdictResult("BLOCK", "Safety rules violated", <<"safety_rules">>, NoneValue)
    ELSE IF high_impact_review_required
    THEN VerdictResult("REQUIRE_HUMAN_REVIEW", "High-impact action requires human review",
                       <<"high_impact_policy">>, high_impact_review_reason)
    ELSE determine_verdict_below_safety(risk_score, evidence_passed, confidence_aligned,
                                        intended_action, high_impact_review_required,
                                        high_impact_review_reason)

\* VerdictEngine.determine_verdict (the explanation text is not modelled)
determine_verdict(risk_score, evidence_passed, rules_passed, confidence_aligned, failed_checks, intended_action, confidence, claims, high_impact_review_required, high_impact_review_reason, governance_review_required, governance_reason) ==
    \* PRIORITY 0: governance rules
    IF governance_review_required
    THEN VerdictResult("REQUIRE_HUMAN_REVIEW", "Governance rule: mandatory human review required",
                       <<"mandatory_governance_review">>, governance_reason)
    \* Priority 1: rules failed
    ELSE IF ~rules_passed
    THEN VerdictResult("BLOCK", "Safety rules violated", <<"safety_rules">>, NoneValue)
    ELSE determine_verdict_below_safety(risk_score, evidence_passed, confidence_aligned,
                                        intended_action, high_impact_review_required,
                                        high_impact_review_reason)

\* VerdictEngine._get_risk_level
get_risk_level(risk_score) ==
    IF RiskLt(risk_score, RISK_THRESHOLD_LOW) THEN "low"
    ELSE IF RiskLt(risk_score, RISK_THRESHOLD_MEDIUM) THEN "medium"
    ELSE IF RiskLt(risk_score, RISK_THRESHOLD_HIGH) THEN "high"
    ELSE "critical"

\* VerdictEngine.build_details
build_details(claims, risk_score, evidence_passed, rules_passed, confidence_aligned, sources) ==
    [claims |-> claims,
     claim_count |-> Len(claims),
     factual_claim_count |-> Len(SelectSeq(claims, LAMBDA c : c.is_factual)),
     risk_score |-> risk_score,
     risk_level |-> get_risk_level(risk_score),
     checks |-> [evidence |-> evidence_passed, rules |-> rules_passed,
                 confidence_alignment |-> confidence_aligned],
     sources |-> [count |-> Len(sources), provided |-> Len(sources) > 0]]

----------------------------------------------------------------------------
(* Files and dicts *)

\* a Python dict with string keys: a function on the keys present
EmptyDict == [k \in {} |-> 0]
DictGet(d, k, default) == IF k \in DOMAIN d THEN d[k] ELSE default
DictPut(d, k, v) == [x \in (DOMAIN d) \cup {k} |-> IF x = k THEN v ELSE d[x]]

\* a JSON document file: absent, holding a document, or cut short by a failed write
AbsentFile == [state |-> "absent"]
PartialFile == [state |-> "partial"]
DocumentFile(doc) == [state |-> "document", doc |-> doc]

\* outcome of one blocking file write: done, open() raises, or write raises after open
IoOutcomes == {"ok", "open_error", "write_error"}

\* open(path, 'w') followed by json.dump
WriteDocument(file, doc, io) ==
    CASE io = "ok" -> DocumentFile(doc)
      [] io = "open_error" -> file
      [] io = "write_error" -> PartialFile

----------------------------------------------------------------------------
(* audit/logger.py *)

\* AuditLogger._hash_output: SHA-256 of the text, one digest per text
hash_output(ai_output) == <<"sha256", ai_output>>

SourcesCount(sources) == IF sources = NoneValue \/ sources = <<>> THEN 0 ELSE Len(sources)

\* the audit_record dict of log_decision (timestamp, explanation and metadata not modelled)
AuditRecord(req, resp) ==
    [ai_output_hash |-> hash_output(req.ai_output),
     confidence |-> req.confidence,
     intended_action |-> req.intended_action,
     verdict |-> resp.verdict,
     risk_score |-> resp.risk_score,
     failed_checks |-> resp.failed_checks,
     confidence_alignment |-> resp.confidence_alignment,
     sources_count |-> SourcesCount(req.sources)]

\* log_decision opening the log for writing instead of appending
log_decision_truncating(file, enterprise, req, resp, io) ==
    IF ~enterprise THEN [file |-> file, raised |-> FALSE]
    ELSE IF io = "ok"
    THEN [file |-> <<AuditRecord(req, resp)>>, raised |-> FALSE]
    ELSE [file |-> file, raised |-> FALSE]

\* log_decision without its try/except: a failed append leaves the call as an exception
log_decision_unguarded(file, enterprise, req, resp, io) ==
    IF ~enterprise THEN [file |-> file, raised |-> FALSE]
    ELSE IF io = "ok"
    THEN [file |-> Append(file, AuditRecord(req, resp)), raised |-> FALSE]
    ELSE [file |-> file, raised |-> TRUE]

\* AuditLogger.log_decision: the file afterwards, and whether an exception leaves the call
log_decision(file, enterprise, req, resp, io) ==
    IF ~enterprise THEN [file |-> file, raised |-> FALSE]
    ELSE IF io = "ok"
    THEN [file |-> Append(file, AuditRecord(req, resp)), raised |-> FALSE]
    \* except Exception: logged and swallowed
    ELSE [file |-> file, raised |-> FALSE]

----------------------------------------------------------------------------
(* metrics/counters.py *)

\* MetricsCounter._load_metrics when the file does not exist (last_updated not modelled)
FreshMetrics ==
    [total_requests |-> 0, blocked_requests |-> 0, allowed_requests |-> 0,
     hallucination_blocks |-> 0, human_reviews |-> 0, evidence_required |-> 0,
     by_verdict |-> EmptyDict, by_action |-> EmptyDict]

\* MetricsCounter._save_metrics: the file afterwards, and whether an exception leaves the call
save_metrics(m, file, io) ==
    \* except Exception: logged and swallowed
    [file |-> WriteDocument(file, m, io), raised |-> FALSE]

\* the counter updates with every BLOCK counted as a hallucination block
count_request_hallucination_every_block(m, verdict, intended_action, is_hallucination) ==
    LET m1 == [m EXCEPT !.total_requests = @ + 1,
                        !.by_verdict = DictPut(@, verdict, DictGet(@, verdict, 0) + 1),
                        !.by_action = DictPut(@, intended_action, DictGet(@, intended_action, 0) + 1)]
    IN  IF verdict = "BLOCK"
        THEN [m1 EXCEPT !.blocked_requests = @ + 1, !.hallucination_blocks = @ + 1]
        ELSE IF verdict = "ALLOW" THEN [m1 EXCEPT !.allowed_requests = @ + 1]
        ELSE IF verdict = "REQUIRE_HUMAN_REVIEW" THEN [m1 EXCEPT !.human_reviews = @ + 1]
        ELSE IF verdict = "REQUIRE_EVIDENCE" THEN [m1 EXCEPT !.evidence_required = @ + 1]
        ELSE m1

\* the counter updates without the REQUIRE_EVIDENCE branch
count_request_no_evidence_counter(m, verdict, intended_action, is_hallucination) ==
    LET m1 == [m EXCEPT !.total_requests = @ + 1,
                        !.by_verdict = DictPut(@, verdict, DictGet(@, verdict, 0) + 1),
                        !.by_action = DictPut(@, intended_action, DictGet(@, intended_action, 0) + 1)]
    IN  IF verdict = "BLOCK"
        THEN [m1 EXCEPT !.blocked_requests = @ + 1,
                        !.hallucination_blocks = IF is_hallucination THEN @ + 1 ELSE @]
        ELSE IF verdict = "ALLOW" THEN [m1 EXCEPT !.allowed_requests = @ + 1]
        ELSE IF verdict = "REQUIRE_HUMAN_REVIEW" THEN [m1 EXCEPT !.human_reviews = @ + 1]
        ELSE m1

\* the counter updates of MetricsCounter.record_request
count_request(m, verdict, intended_action, is_hallucination) ==
    LET m1 == [m EXCEPT !.total_requests = @ + 1,
                        !.by_verdict = DictPut(@, verdict, DictGet(@, verdict, 0) + 1),
                        !.by_action = DictPut(@, intended_action, DictGet(@, intended_action, 0) + 1)]
    IN  IF verdict = "BLOCK"
        THEN [m1 EXCEPT !.blocked_requests = @ + 1,
                        !.hallucination_blocks = IF is_hallucination THEN @ + 1 ELSE @]
        ELSE IF verdict = "ALLOW" THEN [m1 EXCEPT !.allowed_requests = @ + 1]
        ELSE IF verdict = "REQUIRE_HUMAN_REVIEW" THEN [m1 EXCEPT !.human_reviews = @ + 1]
        ELSE IF verdict = "REQUIRE_EVIDENCE" THEN [m1 EXCEPT !.evidence_required = @ + 1]
        ELSE m1

\* MetricsCounter.record_request: counters, file, and whether an exception leaves the call
record_request(m, file, verdict, intended_action, is_hallucination, io) ==
    LET counted == count_request(m, verdict, intended_action, is_hallucination)
        saved == save_metrics(counted, file, io)
    IN  [metrics |-> counted, file |-> saved.file, raised |-> saved.raised]

\* MetricsCounter.get_metrics: the counters plus derived rates (a rate is <<numerator, denominator>>)
get_metrics(m) ==
    IF m.total_requests = 0
    THEN [counters |-> m, block_rate |-> <<0, 1>>, allow_rate |-> <<0, 1>>]
    ELSE [counters |-> m,
          block_rate |-> <<m.blocked_requests, m.total_requests>>,
          allow_rate |-> <<m.allowed_requests, m.total_requests>>,
          hallucination_rate |-> <<m.hallucination_blocks, m.total_requests>>,
          human_review_rate |-> <<m.human_reviews, m.total_requests>>]

----------------------------------------------------------------------------
(* learning/memory.py *)

\* LearningMemory._load_memory when the file does not exist
FreshMemory ==
    [blocked_decisions |-> <<>>, human_overrides |-> <<>>,
     false_positives |-> <<>>, false_negatives |-> <<>>,
     statistics |-> [total_blocks |-> 0, total_overrides |-> 0,
                     false_positive_count |-> 0, false_negative_count |-> 0]]

\* LearningMemory._save_memory: the file afterwards, and whether an exception leaves the call
save_memory(mem, file, io) ==
    \* except Exception: logged and swallowed
    [file |-> WriteDocument(file, mem, io), raised |-> FALSE]

\* request.ai_output[:200]; every text of the model is shorter than 200 characters
Preview200(ai_output) == ai_output

\* the record dict of record_blocked_decision (memory.py 94-103)
BlockedRecord(req, resp) ==
    [ai_output |-> Preview200(req.ai_output),
     confidence |-> req.confidence,
     intended_action |-> req.intended_action,
     verdict |-> resp.verdict,
     risk_score |-> resp.risk_score,
     failed_checks |-> resp.failed_checks]

\* record_blocked_decision without the total_blocks statement
record_blocked_decision_no_count(mem, file, req, resp, io) ==
    LET record == BlockedRecord(req, resp)
        recorded == [mem EXCEPT !.blocked_decisions = Append(@, record)]
        saved == save_memory(recorded, file, io)
    IN  [memory |-> recorded, file |-> saved.file, raised |-> saved.raised]

\* LearningMemory.record_blocked_decision (LEARNING_ENABLED is True; timestamp, explanation not modelled)
record_blocked_decision(mem, file, req, resp, io) ==
    LET record == BlockedRecord(req, resp)
        recorded == [mem EXCEPT !.blocked_decisions = Append(@, record),
                                !.statistics.total_blocks = @ + 1]
        saved == save_memory(recorded, file, io)
    IN  [memory |-> recorded, file |-> saved.file, raised |-> saved.raised]

\* record_human_override that counts every override to ALLOW as a false positive
record_human_override_any_allow(mem, file, original_verdict, override_verdict, io) ==
    LET record == [original_verdict |-> original_verdict,
                   override_verdict |-> override_verdict,
                   ai_output_preview |-> NoneValue]
        m1 == [mem EXCEPT !.human_overrides = Append(@, record),
                          !.statistics.total_overrides = @ + 1]
        m2 == IF override_verdict = "ALLOW"
              THEN [m1 EXCEPT !.false_positives = Append(@, record),
                              !.statistics.false_positive_count = @ + 1]
              ELSE IF original_verdict = "ALLOW" /\ override_verdict = "BLOCK"
              THEN [m1 EXCEPT !.false_negatives = Append(@, record),
                              !.statistics.false_negative_count = @ + 1]
              ELSE m1
        saved == save_memory(m2, file, io)
    IN  [memory |-> m2, file |-> saved.file, raised |-> saved.raised]

\* LearningMemory.record_human_override (LEARNING_ENABLED is True; request is None;
\* timestamp and reason not modelled): the memory and the file afterwards
record_human_override(mem, file, original_verdict, override_verdict, io) ==
    LET record == [original_verdict |-> original_verdict,
                   override_verdict |-> override_verdict,
                   ai_output_preview |-> NoneValue]
        m1 == [mem EXCEPT !.human_overrides = Append(@, record),
                          !.statistics.total_overrides = @ + 1]
        m2 == IF original_verdict = "BLOCK" /\ override_verdict = "ALLOW"
              THEN [m1 EXCEPT !.false_positives = Append(@, record),
                              !.statistics.false_positive_count = @ + 1]
              ELSE IF original_verdict = "ALLOW" /\ override_verdict = "BLOCK"
              THEN [m1 EXCEPT !.false_negatives = Append(@, record),
                              !.statistics.false_negative_count = @ + 1]
              ELSE m1
        saved == save_memory(m2, file, io)
    IN  [memory |-> m2, file |-> saved.file, raised |-> saved.raised]

\* a rate as <<numerator, denominator>>; 0.0 is <<0, 1>>
RateGt(rate, tenths) == rate[1] * 10 > tenths * rate[2]

\* LearningMemory.get_false_positive_rate
get_false_positive_rate(mem) ==
    LET total_blocks == mem.statistics.total_blocks
    IN  IF total_blocks = 0 THEN <<0, 1>>
        ELSE <<mem.statistics.false_positive_count, total_blocks>>

\* get_false_negative_rate with the recorded overrides as its denominator
get_false_negative_rate_per_override(mem) ==
    LET total == mem.statistics.total_overrides
    IN  IF total = 0 THEN <<0, 1>>
        ELSE <<mem.statistics.false_negative_count, total>>

\* LearningMemory.get_false_negative_rate: statistics.get("total_allows", 0)
get_false_negative_rate(mem) ==
    LET total_allows == IF "total_allows" \in DOMAIN mem.statistics
                        THEN mem.statistics.total_allows ELSE 0
    IN  IF total_allows = 0 THEN <<0, 1>>
        ELSE <<mem.statistics.false_negative_count, total_allows>>

\* LearningMemory.get_statistics (recent_blocks, recent_overrides: lengths of the last ten)
get_statistics(mem) ==
    [statistics |-> mem.statistics,
     false_positive_rate |-> get_false_positive_rate(mem),
     false_negative_rate |-> get_false_negative_rate(mem),
     recent_blocks |-> Min(10, Len(mem.blocked_decisions)),
     recent_overrides |-> Min(10, Len(mem.human_overrides))]

----------------------------------------------------------------------------
(* learning/policy_update.py (thresholds in hundredths; ADAPTIVE_STRICTNESS is True) *)

\* PolicyUpdater._get_adjustment_reason
get_adjustment_reason(false_positives, false_negatives) ==
    IF false_positives >= MIN_FALSE_POSITIVES_FOR_RELAX THEN "Relaxing"
    ELSE IF false_negatives >= MIN_FALSE_NEGATIVES_FOR_STRICT THEN "Tightening"
    ELSE "No adjustment needed"

\* PolicyUpdater.get_adaptive_thresholds
get_adaptive_thresholds(mem) ==
    LET stats == get_statistics(mem)
        false_positive_rate == stats.false_positive_rate
        false_negative_rate == stats.false_negative_rate
        false_positives == stats.statistics.false_positive_count
        false_negatives == stats.statistics.false_negative_count
        relax == false_positives >= MIN_FALSE_POSITIVES_FOR_RELAX /\ RateGt(false_positive_rate, 2)
        strict == false_negatives >= MIN_FALSE_NEGATIVES_FOR_STRICT /\ RateGt(false_negative_rate, 1)
        c0 == CONFIDENCE_THRESHOLD_EVIDENCE_REQUIRED
        c1 == IF relax THEN Min(80, c0 + 5) ELSE c0
        c2 == IF strict THEN Max(40, c1 - 5) ELSE c1
        r0 == RISK_THRESHOLD_MEDIUM
        r1 == IF relax THEN Min(80, r0 + 5) ELSE r0
        r2 == IF strict THEN Max(40, r1 - 5) ELSE r1
    IN  [confidence_threshold |-> c2,
         risk_threshold_medium |-> r2,
         adjustment_reason |-> get_adjustment_reason(false_positives, false_negatives)]

----------------------------------------------------------------------------
(* baby_agi/models/task.py *)

TaskStatus == {"pending", "in_progress", "completed", "failed", "blocked"}

\* Task(...): a new task is PENDING with attempts 0 (created_at is a clock reading)
Task(id, priority, depends_on, created_at, max_attempts) ==
    [id |-> id, priority |-> priority, status |-> "pending", depends_on |-> depends_on,
     created_at |-> created_at, attempts |-> 0, max_attempts |-> max_attempts]

\* Task.can_execute
can_execute(task, completed_task_ids) ==
    IF task.status # "pending" THEN FALSE
    ELSE IF task.attempts >= task.max_attempts THEN FALSE
    ELSE \A dep_id \in task.depends_on : dep_id \in completed_task_ids

\* Task.mark_started
mark_started(task) == [task EXCEPT !.status = "in_progress", !.attempts = @ + 1]

\* Task.mark_completed
mark_completed(task) == [task EXCEPT !.status = "completed"]

\* mark_failed that always returns the task to PENDING
mark_failed_always_pending(task) == [task EXCEPT !.status = "pending"]

\* Task.mark_failed
mark_failed(task) ==
    IF task.attempts >= task.max_attempts
    THEN [task EXCEPT !.status = "failed"]
    ELSE [task EXCEPT !.status = "pending"]

----------------------------------------------------------------------------
(* baby_agi/core/task_manager.py: tasks is a dict, kept as the sequence of   *)
(* its values in insertion order                                             *)

\* TaskQueue.__init__
EmptyTaskQueue == [tasks |-> <<>>, completed_task_ids |-> {}, failed_task_ids |-> {}]

\* the position of task_id in self.tasks, 0 when it is not a key
TaskIndex(queue, task_id) ==
    IF \E i \in 1..Len(queue.tasks) : queue.tasks[i].id = task_id
    THEN CHOOSE i \in 1..Len(queue.tasks) : queue.tasks[i].id = task_id
    ELSE 0

\* TaskQueue.add_task: self.tasks[task.id] = task
add_task(queue, task) ==
    LET i == TaskIndex(queue, task.id)
    IN  IF i = 0 THEN [queue EXCEPT !.tasks = Append(@, task)]
        ELSE [queue EXCEPT !.tasks[i] = task]

\* TaskQueue.add_tasks
RECURSIVE add_tasks(_, _)
add_tasks(queue, tasks) ==
    IF tasks = <<>> THEN queue
    ELSE add_tasks(add_task(queue, Head(tasks)), Tail(tasks))

\* the sort key (-priority, created_at) of t is smaller than that of u
KeyLess(t, u) ==
    \/ t.priority > u.priority
    \/ t.priority = u.priority /\ t.created_at < u.created_at

\* get_next_task that ignores the dependencies
get_next_task_ignoring_dependencies(queue) ==
    LET executable_tasks ==
            SelectSeq(queue.tasks, LAMBDA task : task.status = "pending"
                                                 /\ task.attempts < task.max_attempts)
    IN  IF executable_tasks = <<>> THEN NoObject
        ELSE LET first == CHOOSE i \in 1..Len(executable_tasks) :
                              \A j \in 1..Len(executable_tasks) :
                                  /\ ~KeyLess(executable_tasks[j], executable_tasks[i])
                                  /\ j < i => KeyLess(executable_tasks[i], executable_tasks[j])
             IN  executable_tasks[first]

\* TaskQueue.get_next_task: the first element of the stable sort by (-priority, created_at)
get_next_task(queue) ==
    LET executable_tasks ==
            SelectSeq(queue.tasks, LAMBDA task : can_execute(task, queue.completed_task_ids))
    IN  IF executable_tasks = <<>> THEN NoObject
        ELSE LET first == CHOOSE i \in 1..Len(executable_tasks) :
                              \A j \in 1..Len(executable_tasks) :
                                  /\ ~KeyLess(executable_tasks[j], executable_tasks[i])
                                  /\ j < i => KeyLess(executable_tasks[i], executable_tasks[j])
             IN  executable_tasks[first]

\* TaskQueue.mark_task_completed
mark_task_completed(queue, task_id) ==
    LET i == TaskIndex(queue, task_id)
    IN  IF i = 0 THEN queue
        ELSE [queue EXCEPT !.tasks[i] = mark_completed(@),
                           !.completed_task_ids = @ \cup {task_id}]

\* TaskQueue.mark_task_failed
mark_task_failed(queue, task_id) ==
    LET i == TaskIndex(queue, task_id)
    IN  IF i = 0 THEN queue
        ELSE LET marked == mark_failed(queue.tasks[i])
             IN  [queue EXCEPT !.tasks[i] = marked,
                               !.failed_task_ids =
                                   IF marked.status = "failed" THEN @ \cup {task_id} ELSE @]

\* TaskQueue.get_completed_tasks
get_completed_tasks(queue) == SelectSeq(queue.tasks, LAMBDA task : task.status = "completed")

\* has_pending_tasks that only counts the tasks that can be executed
has_pending_tasks_only_executable(queue) ==
    \E i \in 1..Len(queue.tasks) : can_execute(queue.tasks[i], queue.completed_task_ids)

\* TaskQueue.has_pending_tasks
has_pending_tasks(queue) ==
    \E i \in 1..Len(queue.tasks) : queue.tasks[i].status \in {"pending", "in_progress"}

----------------------------------------------------------------------------
(* firewall/interceptor.py *)

\* FirewallRequest(...): the validator lower-cases the action or raises ValueError
MakeRequest(ai_output, confidence, raw_action, sources) ==
    [ai_output |-> ai_output, confidence |-> confidence,
     intended_action |-> validate_action(raw_action), sources |-> sources]

\* `x in failed_checks`
InList(x, list) == \E i \in 1..Len(list) : list[i] = x

\* the failed_checks list with confidence_alignment recorded whenever alignment failed
build_failed_checks_alignment_always(evidence_passed, rules_passed, confidence_aligned, requires_human_review, governance_requires_review) ==
    (IF ~evidence_passed THEN <<"evidence">> ELSE <<>>)
    \o (IF ~rules_passed THEN <<"rules">> ELSE <<>>)
    \o (IF ~confidence_aligned THEN <<"confidence_alignment">> ELSE <<>>)
    \o (IF requires_human_review THEN <<"high_impact_review_required">> ELSE <<>>)
    \o (IF governance_requires_review THEN <<"governance_mandatory_review">> ELSE <<>>)

\* the failed_checks list without the governance entry
build_failed_checks_no_governance(evidence_passed, rules_passed, confidence_aligned, requires_human_review, governance_requires_review) ==
    (IF ~evidence_passed THEN <<"evidence">> ELSE <<>>)
    \o (IF ~rules_passed THEN <<"rules">> ELSE <<>>)
    \o (IF ~confidence_aligned /\ ~evidence_passed THEN <<"confidence_alignment">> ELSE <<>>)
    \o (IF requires_human_review THEN <<"high_impact_review_required">> ELSE <<>>)

\* FirewallInterceptor.check, the failed_checks list of step 8 (lines 121-132)
build_failed_checks(evidence_passed, rules_passed, confidence_aligned, requires_human_review, governance_requires_review) ==
    (IF ~evidence_passed THEN <<"evidence">> ELSE <<>>)
    \o (IF ~rules_passed THEN <<"rules">> ELSE <<>>)
    \* Evidence Override Rule
    \o (IF ~confidence_aligned /\ ~evidence_passed THEN <<"confidence_alignment">> ELSE <<>>)
    \o (IF requires_human_review THEN <<"high_impact_review_required">> ELSE <<>>)
    \o (IF governance_requires_review THEN <<"governance_mandatory_review">> ELSE <<>>)

\* FirewallInterceptor.check, steps 1 to 8 and the FirewallResponse it builds (lines 58-177),
\* given what policy_manager.requires_mandatory_review returned in step 6
BuildResponseWith(req, governance) ==
    LET claims == parse(req.ai_output, req.confidence)
        confidence_aligned == validate_confidence_alignment(req.confidence, claims)[1]
        evidence_passed == check_evidence(claims, req.sources)[1]
        rules_passed == check_rules(claims, req.ai_output, req.intended_action)[1]
        risk_score == calculate_risk_score(req.confidence, req.intended_action, claims, evidence_passed)
        high_impact == requires_human_review_for_high_impact(req.intended_action, req.confidence, evidence_passed)
        failed_checks == build_failed_checks(evidence_passed, rules_passed, confidence_aligned,
                                             high_impact[1], governance[1])
        decided == determine_verdict(risk_score, evidence_passed, rules_passed, confidence_aligned,
                                     failed_checks, req.intended_action, req.confidence, claims,
                                     high_impact[1], high_impact[2], governance[1], governance[2])
        sources == IF req.sources = NoneValue THEN <<>> ELSE req.sources
    IN  [verdict |-> decided.verdict,
         reason |-> decided.reason,
         risk_score |-> risk_score,
         details |-> build_details(claims, risk_score, evidence_passed, rules_passed,
                                   confidence_aligned, sources),
         failed_checks |-> failed_checks,
         confidence_alignment |-> confidence_aligned,
         applied_policies |-> decided.applied_policies,
         escalation_reason |-> decided.escalation_reason]

\* the same with step 6 done on the manager pm that get_policy_manager() returned
BuildResponse(req, pm) ==
    BuildResponseWith(req, requires_mandatory_review(pm, req.intended_action))

\* the enterprise override at the end of check (lines 199-207)
EnterpriseOverlay(enterprise, resp) ==
    IF enterprise /\ RiskGe(resp.risk_score, 70) /\ resp.verdict = "ALLOW"
    THEN [resp EXCEPT !.verdict = "REQUIRE_HUMAN_REVIEW",
                      !.reason = "Enterprise mode: High-risk decision requires human review"]
    ELSE resp

\* the caller is between calls
Idle == pc \in {"start", "mode_set", "check_returned"}

\* check is entered: lines 53-177 run, the response object exists
CheckStart(req) ==
    /\ Idle
    /\ req.intended_action # "ValueError"
    /\ request' = req
    /\ response' = BuildResponse(req, policy_manager)
    /\ pc' = "check_audit"
    /\ UNCHANGED <<adapter_vars, thread_vars>>
    /\ UNCHANGED <<ENTERPRISE_MODE, policy_manager, audit_file, metrics, metrics_file,
                   memory, memory_file, verdict_call, standalone_vars>>

\* lines 179-181: audit logging when an AuditLogger was constructed
AuditStep(io) ==
    /\ pc = "check_audit"
    /\ LET out == IF ENTERPRISE_MODE
                  THEN log_decision(audit_file, ENTERPRISE_MODE, request, response, io)
                  ELSE [file |-> audit_file, raised |-> FALSE]
       IN  /\ audit_file' = out.file
           /\ pc' = IF out.raised THEN "check_raised" ELSE "check_metrics"
    /\ UNCHANGED <<adapter_vars, thread_vars>>
    /\ UNCHANGED <<ENTERPRISE_MODE, policy_manager, request, response, metrics, metrics_file,
                   memory, memory_file, verdict_call, standalone_vars>>

\* lines 183-193: record metrics
MetricsStep(io) ==
    /\ pc = "check_metrics"
    /\ LET is_hallucination == /\ response.verdict = "BLOCK"
                               /\ InList("evidence", response.failed_checks)
                               /\ request.confidence > 70
           out == record_request(metrics, metrics_file, response.verdict,
                                 request.intended_action, is_hallucination, io)
       IN  /\ metrics' = out.metrics
           /\ metrics_file' = out.file
           /\ pc' = IF out.raised THEN "check_raised" ELSE "check_learning"
    /\ UNCHANGED <<adapter_vars, thread_vars>>
    /\ UNCHANGED <<ENTERPRISE_MODE, policy_manager, request, response, audit_file,
                   memory, memory_file, verdict_call, standalone_vars>>

\* lines 195-197: record blocked decisions for learning
LearningStep(io) ==
    /\ pc = "check_learning"
    /\ LET out == IF response.verdict = "BLOCK"
                  THEN record_blocked_decision(memory, memory_file, request, response, io)
                  ELSE [memory |-> memory, file |-> memory_file, raised |-> FALSE]
       IN  /\ memory' = out.memory
           /\ memory_file' = out.file
           /\ pc' = IF out.raised THEN "check_raised" ELSE "check_overlay"
    /\ UNCHANGED <<adapter_vars, thread_vars>>
    /\ UNCHANGED <<ENTERPRISE_MODE, policy_manager, request, response, audit_file,
                   metrics, metrics_file, verdict_call, standalone_vars>>

\* lines 199-209: the enterprise override, then return response
OverlayStep ==
    /\ pc = "check_overlay"
    /\ response' = EnterpriseOverlay(ENTERPRISE_MODE, response)
    /\ pc' = "check_returned"
    /\ UNCHANGED <<adapter_vars, thread_vars>>
    /\ UNCHANGED <<ENTERPRISE_MODE, policy_manager, request, audit_file, metrics, metrics_file,
                   memory, memory_file, verdict_call, standalone_vars>>

\* compliance.policy.set_policy_mode, called between checks
SetPolicyMode(mode) ==
    /\ Idle
    /\ policy_manager' = PolicyManager(mode)
    /\ pc' = "mode_set"
    /\ UNCHANGED <<adapter_vars, thread_vars>>
    /\ UNCHANGED <<ENTERPRISE_MODE, request, response, audit_file, metrics, metrics_file,
                   memory, memory_file, verdict_call, standalone_vars>>

\* a direct call of VerdictEngine.determine_verdict
CallDetermineVerdict(a) ==
    /\ pc = "start"
    /\ verdict_call' =
           [called |-> TRUE, args |-> a,
            result |-> determine_verdict(a.risk_score, a.evidence_passed, a.rules_passed,
                                         a.confidence_aligned, <<>>, a.intended_action,
                                         a.confidence, <<>>, a.high_impact_review_required,
                                         <<"high impact reason">>, a.governance_review_required,
                                         <<"governance reason">>)]
    /\ UNCHANGED <<adapter_vars, thread_vars, standalone_vars>>
    /\ UNCHANGED <<ENTERPRISE_MODE, policy_manager, pc, request, response, audit_file,
                   metrics, metrics_file, memory, memory_file>>

----------------------------------------------------------------------------
(* Inputs *)

\* a sentence of three or more words that the parser classifies as factual:
\* odd ids match FACTUAL_PATTERNS, even ids only contain a digit
FactualSentence(i) ==
    [id |-> i, upper |-> FALSE, words |-> 4, kind |-> IF i % 2 = 1 THEN "pattern" ELSE "digit"]

\* a sentence of three or more words with no factual pattern and no digit
PlainSentence(i) == [id |-> 100 + i, upper |-> FALSE, words |-> 5, kind |-> "plain"]

\* a sentence of fewer than three words (such as "$1000000" or "sudo reboot")
ShortSentence == [id |-> 200, upper |-> FALSE, words |-> 2, kind |-> "digit"]

\* the same sentence written with capitals
Capitalised(s) == [s EXCEPT !.upper = TRUE]

\* a text of a factual sentences (optionally the first one repeated in capitals),
\* b plain sentences, optionally a short sentence, matching the rule patterns in markers
Text(a, b, short, dup, markers) ==
    [sentences |-> [i \in 1..a |-> FactualSentence(i)]
                   \o (IF dup THEN <<Capitalised(FactualSentence(1))>> ELSE <<>>)
                   \o [i \in 1..b |-> PlainSentence(i)]
                   \o (IF short THEN <<ShortSentence>> ELSE <<>>),
     markers |-> markers]

Markers == {"unsafe", "harmful", "large_amount", "system_ops"}

Confidences == {0, 10, 30, 45, 60, 61, 70, 71, 79, 80, 90, 100}

FactualCounts == 0..MaxFactual

\* v non-empty sources followed by e blank ones
SourceList(v, e) ==
    [i \in 1..v |-> "https://source"] \o [i \in 1..e |-> IF v = 0 THEN "   " ELSE ""]

WideSources ==
    {SourceList(v, e) : v \in 0..MaxSources, e \in 0..1} \ {SourceList(MaxSources, 1)}

WideOutputs ==
    {Text(a, b, FALSE, FALSE, {}) : a \in FactualCounts, b \in 0..MaxNonFactual}
    \cup {Text(a, 0, TRUE, FALSE, {}) : a \in {0, 1}}
    \cup {Text(a, 0, FALSE, TRUE, {}) : a \in FactualCounts \ {0}}
    \cup {Text(a, 0, TRUE, FALSE, {m}) : a \in {0, 1}, m \in Markers}

WideRequests ==
    {MakeRequest(o, c, a, s) : o \in WideOutputs, c \in Confidences,
                               a \in IntendedAction, s \in WideSources}

\* the requests of the multi-check specification
Requests ==
    { MakeRequest(Text(1, 0, FALSE, FALSE, {}), 90, "answer", <<>>),
      MakeRequest(Text(1, 0, FALSE, FALSE, {}), 90, "answer", <<"https://source">>),
      MakeRequest(Text(0, 1, FALSE, FALSE, {}), 30, "answer", NoneValue),
      MakeRequest(Text(2, 1, FALSE, FALSE, {}), 45, "TRADE", <<>>),
      MakeRequest(Text(1, 0, TRUE, FALSE, {"unsafe"}), 80, "email", <<>>),
      MakeRequest(Text(1, 0, TRUE, FALSE, {"unsafe"}), 70, "email", <<>>),
      MakeRequest(Text(1, 0, FALSE, TRUE, {}), 50, "answer", <<"   ">>),
      MakeRequest(Text(0, 1, FALSE, FALSE, {}), 90, "medical", <<>>) }

\* the arguments of the direct calls of determine_verdict
RiskPoints == {0, 29, 30, 59, 60, 79, 80, 100}

VerdictArgs ==
    [risk_score : {r * (RiskScale \div 100) : r \in RiskPoints},
     evidence_passed : BOOLEAN, rules_passed : BOOLEAN, confidence_aligned : BOOLEAN,
     intended_action : IntendedAction, confidence : {90},
     high_impact_review_required : BOOLEAN, governance_review_required : BOOLEAN]

\* the caller threads of the concurrent specifications
Threads == 1..MaxThreads

\* a thread that has not entered check
IdleThread ==
    [pc |-> "idle", request |-> NoObject, policy_manager |-> NoObject,
     governance |-> NoneValue, response |-> NoObject, slot |-> 0, reg |-> 0]

\* the requests of the concurrent callers: an allowed answer, a blocked email
\* (unsafe pattern, evidence missing) and a governed trade
ThreadRequests ==
    { MakeRequest(Text(0, 1, FALSE, FALSE, {}), 30, "answer", <<>>),
      MakeRequest(Text(1, 0, TRUE, FALSE, {"unsafe"}), 80, "email", <<>>),
      MakeRequest(Text(1, 0, FALSE, FALSE, {}), 90, "trade", <<"https://source">>) }

----------------------------------------------------------------------------
(* Concurrent callers of check and set_policy_mode: each statement that reads *)
(* and writes shared state is a load into a local followed by a store        *)

\* the dict entries that record_request updates, in statement order (counters.py 92-111)
MetricsSlots(verdict, intended_action, is_hallucination) ==
    << <<"total_requests">>, <<"by_verdict", verdict>>, <<"by_action", intended_action>> >>
    \o (IF verdict = "BLOCK"
        THEN << <<"blocked_requests">> >>
             \o (IF is_hallucination THEN << <<"hallucination_blocks">> >> ELSE <<>>)
        ELSE IF verdict = "ALLOW" THEN << <<"allowed_requests">> >>
        ELSE IF verdict = "REQUIRE_HUMAN_REVIEW" THEN << <<"human_reviews">> >>
        ELSE IF verdict = "REQUIRE_EVIDENCE" THEN << <<"evidence_required">> >>
        ELSE <<>>)

\* self.metrics[...] or self.metrics[...].get(key, 0)
SlotGet(m, slot) ==
    IF Len(slot) = 1 THEN m[slot[1]] ELSE DictGet(m[slot[1]], slot[2], 0)

\* self.metrics[...] = v
SlotPut(m, slot, v) ==
    IF Len(slot) = 1 THEN [m EXCEPT ![slot[1]] = v]
    ELSE [m EXCEPT ![slot[1]] = DictPut(@, slot[2], v)]

\* is_hallucination as computed in check (interceptor.py 184-188)
IsHallucination(req, resp) ==
    /\ resp.verdict = "BLOCK"
    /\ InList("evidence", resp.failed_checks)
    /\ req.confidence > 70

\* the entries thread t has to update
ThreadSlots(t) ==
    MetricsSlots(threads[t].response.verdict, threads[t].request.intended_action,
                 IsHallucination(threads[t].request, threads[t].response))

\* thread t enters check: steps 1 to 5 (lines 53-104) read no shared state
T_Begin(t, req) ==
    /\ threads[t].pc = "idle"
    /\ req.intended_action # "ValueError"
    /\ threads' = [threads EXCEPT ![t] = [@ EXCEPT !.pc = "get_policy_manager", !.request = req]]
    /\ UNCHANGED <<ENTERPRISE_MODE, policy_manager, pc, request, response, audit_file,
                   metrics, metrics_file, memory, memory_file, verdict_call, standalone_vars, adapter_vars, swapper>>

\* line 108: policy_manager = get_policy_manager()
T_GetPolicyManager(t) ==
    /\ threads[t].pc = "get_policy_manager"
    /\ threads' = [threads EXCEPT ![t] = [@ EXCEPT !.pc = "requires_mandatory_review",
                                                  !.policy_manager = policy_manager]]
    /\ UNCHANGED <<ENTERPRISE_MODE, policy_manager, pc, request, response, audit_file,
                   metrics, metrics_file, memory, memory_file, verdict_call, standalone_vars, adapter_vars, swapper>>

\* lines 109-111: policy_manager.requires_mandatory_review(request.intended_action);
\* an object without its attributes raises AttributeError
T_RequiresMandatoryReview(t) ==
    /\ threads[t].pc = "requires_mandatory_review"
    /\ LET pm == threads[t].policy_manager
       IN  IF {"mode", "mandatory_review_actions"} \subseteq DOMAIN pm
           THEN threads' = [threads EXCEPT ![t] =
                    [@ EXCEPT !.pc = "determine_verdict",
                              !.governance = requires_mandatory_review(pm, threads[t].request.intended_action)]]
           ELSE threads' = [threads EXCEPT ![t] = [@ EXCEPT !.pc = "raised"]]
    /\ UNCHANGED <<ENTERPRISE_MODE, policy_manager, pc, request, response, audit_file,
                   metrics, metrics_file, memory, memory_file, verdict_call, standalone_vars, adapter_vars, swapper>>

\* lines 113-177: high-impact policy, verdict, details, response
T_Decide(t) ==
    /\ threads[t].pc = "determine_verdict"
    /\ threads' = [threads EXCEPT ![t] =
           [@ EXCEPT !.pc = "audit",
                     !.response = BuildResponseWith(threads[t].request, threads[t].governance)]]
    /\ UNCHANGED <<ENTERPRISE_MODE, policy_manager, pc, request, response, audit_file,
                   metrics, metrics_file, memory, memory_file, verdict_call, standalone_vars, adapter_vars, swapper>>

\* lines 179-181: the audit append (one write call on a file opened for append)
T_Audit(t, io) ==
    /\ threads[t].pc = "audit"
    /\ audit_file' = IF ENTERPRISE_MODE
                     THEN log_decision(audit_file, ENTERPRISE_MODE, threads[t].request,
                                       threads[t].response, io).file
                     ELSE audit_file
    /\ threads' = [threads EXCEPT ![t] = [@ EXCEPT !.pc = "metrics_load", !.slot = 1]]
    /\ UNCHANGED <<ENTERPRISE_MODE, policy_manager, pc, request, response,
                   metrics, metrics_file, memory, memory_file, verdict_call, standalone_vars, adapter_vars, swapper>>


\* the right-hand side of one counter statement of record_request is evaluated
T_MetricsLoad(t) ==
    /\ threads[t].pc = "metrics_load"
    /\ threads' = [threads EXCEPT ![t] =
           [@ EXCEPT !.pc = "metrics_store",
                     !.reg = SlotGet(metrics, ThreadSlots(t)[threads[t].slot])]]
    /\ UNCHANGED <<ENTERPRISE_MODE, policy_manager, pc, request, response, audit_file,
                   metrics, metrics_file, memory, memory_file, verdict_call, standalone_vars, adapter_vars, swapper>>

\* ... and its value plus one is stored
T_MetricsStore(t) ==
    /\ threads[t].pc = "metrics_store"
    /\ metrics' = SlotPut(metrics, ThreadSlots(t)[threads[t].slot], threads[t].reg + 1)
    /\ threads' = [threads EXCEPT ![t] =
           IF @.slot < Len(ThreadSlots(t))
           THEN [@ EXCEPT !.pc = "metrics_load", !.slot = @ + 1]
           ELSE [@ EXCEPT !.pc = "metrics_save"]]
    /\ UNCHANGED <<ENTERPRISE_MODE, policy_manager, pc, request, response, audit_file,
                   metrics_file, memory, memory_file, verdict_call, standalone_vars, adapter_vars, swapper>>

\* counters.py 113: self._save_metrics()
T_MetricsSave(t, io) ==
    /\ threads[t].pc = "metrics_save"
    /\ metrics_file' = save_metrics(metrics, metrics_file, io).file
    /\ threads' = [threads EXCEPT ![t] =
           [@ EXCEPT !.pc = IF threads[t].response.verdict = "BLOCK" THEN "learning_append"
                            ELSE "overlay"]]
    /\ UNCHANGED <<ENTERPRISE_MODE, policy_manager, pc, request, response, audit_file,
                   metrics, memory, memory_file, verdict_call, standalone_vars, adapter_vars, swapper>>

\* memory.py 105: self.memory["blocked_decisions"].append(record)
T_LearningAppend(t) ==
    /\ threads[t].pc = "learning_append"
    /\ memory' = [memory EXCEPT !.blocked_decisions =
                      Append(@, BlockedRecord(threads[t].request, threads[t].response))]
    /\ threads' = [threads EXCEPT ![t] = [@ EXCEPT !.pc = "learning_load"]]
    /\ UNCHANGED <<ENTERPRISE_MODE, policy_manager, pc, request, response, audit_file,
                   metrics, metrics_file, memory_file, verdict_call, standalone_vars, adapter_vars, swapper>>

\* memory.py 106: self.memory["statistics"]["total_blocks"] += 1, the load
T_LearningLoad(t) ==
    /\ threads[t].pc = "learning_load"
    /\ threads' = [threads EXCEPT ![t] =
           [@ EXCEPT !.pc = "learning_store", !.reg = memory.statistics.total_blocks]]
    /\ UNCHANGED <<ENTERPRISE_MODE, policy_manager, pc, request, response, audit_file,
                   metrics, metrics_file, memory, memory_file, verdict_call, standalone_vars, adapter_vars, swapper>>

\* ... and the store
T_LearningStore(t) ==
    /\ threads[t].pc = "learning_store"
    /\ memory' = [memory EXCEPT !.statistics.total_blocks = threads[t].reg + 1]
    /\ threads' = [threads EXCEPT ![t] = [@ EXCEPT !.pc = "learning_save"]]
    /\ UNCHANGED <<ENTERPRISE_MODE, policy_manager, pc, request, response, audit_file,
                   metrics, metrics_file, memory_file, verdict_call, standalone_vars, adapter_vars, swapper>>

\* memory.py 107: self._save_memory()
T_LearningSave(t, io) ==
    /\ threads[t].pc = "learning_save"
    /\ memory_file' = save_memory(memory, memory_file, io).file
    /\ threads' = [threads EXCEPT ![t] = [@ EXCEPT !.pc = "overlay"]]
    /\ UNCHANGED <<ENTERPRISE_MODE, policy_manager, pc, request, response, audit_file,
                   metrics, metrics_file, memory, verdict_call, standalone_vars, adapter_vars, swapper>>

\* lines 199-209: the enterprise override, then return response
T_Return(t) ==
    /\ threads[t].pc = "overlay"
    /\ threads' = [threads EXCEPT ![t] =
           [@ EXCEPT !.pc = "returned",
                     !.response = EnterpriseOverlay(ENTERPRISE_MODE, @)]]
    /\ UNCHANGED <<ENTERPRISE_MODE, policy_manager, pc, request, response, audit_file,
                   metrics, metrics_file, memory, memory_file, verdict_call, standalone_vars, adapter_vars, swapper>>

\* one step of thread t inside check
T_Step(t) ==
    \/ T_GetPolicyManager(t) \/ T_RequiresMandatoryReview(t) \/ T_Decide(t)
    \/ \E io \in {"ok", "open_error"} : T_Audit(t, io)
    \/ T_MetricsLoad(t) \/ T_MetricsStore(t)
    \/ \E io \in {"ok", "write_error"} : T_MetricsSave(t, io)
    \/ T_LearningAppend(t) \/ T_LearningLoad(t) \/ T_LearningStore(t)
    \/ \E io \in {"ok", "write_error"} : T_LearningSave(t, io)
    \/ T_Return(t)

----------------------------------------------------------------------------
(* compliance/policy.py, set_policy_mode called from another thread.  The    *)
(* statement `_policy_manager = PolicyManager(mode)` evaluates the           *)
(* constructor, whose body runs as separate steps, and then binds the global *)
(* name with one store.                                                      *)

\* the global name bound while the constructor runs
set_policy_mode_during_init(current, obj, stage) == obj

\* what the global name _policy_manager refers to after a stage of
\* set_policy_mode: the store of line 134 happens once the constructor returned
set_policy_mode(current, obj, stage) == IF stage = "store_global" THEN obj ELSE current

\* line 134 entered, PolicyManager.__init__ line 38: self.mode = mode
S_Init(mode) ==
    /\ swapper.pc = "idle"
    /\ swapper.calls < MaxSwaps
    /\ swapper' = [pc |-> "_setup_policies", calls |-> swapper.calls + 1, obj |-> [mode |-> mode]]
    /\ policy_manager' = set_policy_mode(policy_manager, swapper'.obj, "__init__")
    /\ UNCHANGED <<ENTERPRISE_MODE, pc, request, response, audit_file, metrics, metrics_file,
                   memory, memory_file, verdict_call, standalone_vars, adapter_vars, threads>>

\* _setup_policies line 45: self.mandatory_review_actions = set()
S_SetupEmpty ==
    /\ swapper.pc = "_setup_policies"
    /\ swapper' = [swapper EXCEPT !.pc = "mode_specific",
                       !.obj = [mode |-> swapper.obj.mode, mandatory_review_actions |-> {}]]
    /\ policy_manager' = set_policy_mode(policy_manager, swapper'.obj, "_setup_policies")
    /\ UNCHANGED <<ENTERPRISE_MODE, pc, request, response, audit_file, metrics, metrics_file,
                   memory, memory_file, verdict_call, standalone_vars, adapter_vars, threads>>

\* _setup_policies lines 48-70: the mode-specific set and thresholds
S_SetupMode ==
    /\ swapper.pc = "mode_specific"
    /\ swapper' = [swapper EXCEPT !.pc = "store_global", !.obj = PolicyManager(swapper.obj.mode)]
    /\ policy_manager' = set_policy_mode(policy_manager, swapper'.obj, "mode_specific")
    /\ UNCHANGED <<ENTERPRISE_MODE, pc, request, response, audit_file, metrics, metrics_file,
                   memory, memory_file, verdict_call, standalone_vars, adapter_vars, threads>>

\* line 134: the store to the global name
S_StoreGlobal ==
    /\ swapper.pc = "store_global"
    /\ swapper' = [swapper EXCEPT !.pc = "idle", !.obj = NoObject]
    /\ policy_manager' = set_policy_mode(policy_manager, swapper.obj, "store_global")
    /\ UNCHANGED <<ENTERPRISE_MODE, pc, request, response, audit_file, metrics, metrics_file,
                   memory, memory_file, verdict_call, standalone_vars, adapter_vars, threads>>

----------------------------------------------------------------------------
(* main.py: the HTTP adapter.  Every endpoint is an `async def` that never   *)
(* awaits, so the event loop runs each handler to completion.                *)

\* bodies of POST /firewall/check
HttpCheckBodies ==
    { MakeRequest(Text(0, 1, FALSE, FALSE, {}), 30, "answer", <<>>),
      MakeRequest(Text(1, 0, TRUE, FALSE, {"unsafe"}), 80, "email", <<>>),
      MakeRequest(Text(0, 1, FALSE, FALSE, {}), 90, "medical", <<>>) }

\* verdict strings of POST /policy/update
VerdictStrings == {"BLOCK", "ALLOW", "REQUIRE_HUMAN_REVIEW", "allow"}

\* mode strings of POST /policy/mode
ModeStrings == {"GENERAL_AI", "Healthcare", "legal", "MEDICAL", "legal "}

\* the mode string passed on as it was sent
Upper_as_sent(str) == str

\* str.upper() on the mode strings of the model
Upper(str) ==
    CASE str = "Healthcare" -> "HEALTHCARE"
      [] str = "legal" -> "LEGAL"
      [] str = "legal " -> "LEGAL "
      [] OTHER -> str

\* PolicyManager.get_policy_info (description not modelled)
get_policy_info(pm) ==
    [mode |-> pm.mode, mandatory_review_actions |-> pm.mandatory_review_actions,
     confidence_threshold_evidence_required |-> pm.confidence_threshold_evidence_required,
     risk_threshold_medium |-> pm.risk_threshold_medium]

\* POST /firewall/check (main.py 58-85): pydantic rejects an invalid body with 422
\* before the handler runs; otherwise firewall.check runs to its return
PostFirewallCheck(req, io) ==
    /\ http_request' = [endpoint |-> "POST /firewall/check", body |-> req]
    /\ IF req.intended_action = "ValueError"
       THEN /\ http_response' = [status |-> 422, body |-> NoObject]
            /\ UNCHANGED <<audit_file, metrics, metrics_file, memory, memory_file>>
       ELSE LET resp == BuildResponse(req, policy_manager)
                logged == IF ENTERPRISE_MODE
                          THEN log_decision(audit_file, ENTERPRISE_MODE, req, resp, io)
                          ELSE [file |-> audit_file, raised |-> FALSE]
                counted == record_request(metrics, metrics_file, resp.verdict,
                                          req.intended_action, IsHallucination(req, resp), io)
                learned == IF resp.verdict = "BLOCK"
                           THEN record_blocked_decision(memory, memory_file, req, resp, io)
                           ELSE [memory |-> memory, file |-> memory_file, raised |-> FALSE]
            IN  /\ audit_file' = logged.file
                /\ metrics' = counted.metrics
                /\ metrics_file' = counted.file
                /\ memory' = learned.memory
                /\ memory_file' = learned.file
                /\ http_response' =
                       IF logged.raised \/ counted.raised \/ learned.raised
                       THEN [status |-> 500, body |-> NoObject]
                       ELSE [status |-> 200, body |-> EnterpriseOverlay(ENTERPRISE_MODE, resp)]
    /\ UNCHANGED <<ENTERPRISE_MODE, policy_manager, pc, request, response, verdict_call, standalone_vars,
                   metrics_counter, learning_memory, thread_vars>>

\* GET /metrics (main.py 88-96)
GetMetrics ==
    /\ http_request' = [endpoint |-> "GET /metrics", body |-> NoObject]
    /\ http_response' = [status |-> 200, body |-> get_metrics(metrics_counter)]
    /\ UNCHANGED <<ENTERPRISE_MODE, policy_manager, pc, request, response, audit_file,
                   metrics, metrics_file, memory, memory_file, verdict_call, standalone_vars,
                   metrics_counter, learning_memory, thread_vars>>

\* POST /policy/update (main.py 148-175): Verdict(...) raises ValueError on an unknown string
PostPolicyUpdate(original_verdict, override_verdict, io) ==
    /\ http_request' = [endpoint |-> "POST /policy/update",
                        body |-> [original_verdict |-> original_verdict,
                                  override_verdict |-> override_verdict]]
    /\ IF original_verdict \in Verdict /\ override_verdict \in Verdict
       THEN LET out == record_human_override(learning_memory, memory_file,
                                             original_verdict, override_verdict, io)
            IN  /\ learning_memory' = out.memory
                /\ memory_file' = out.file
                /\ http_response' = [status |-> 200,
                                     body |-> [status |-> "success",
                                               learning_stats |-> out.memory.statistics]]
       ELSE /\ http_response' = [status |-> 400, body |-> [detail |-> "Invalid verdict"]]
            /\ UNCHANGED <<learning_memory, memory_file>>
    /\ UNCHANGED <<ENTERPRISE_MODE, policy_manager, pc, request, response, audit_file,
                   metrics, metrics_file, memory, verdict_call, standalone_vars, metrics_counter, thread_vars>>

\* POST /policy/mode (main.py 183-212): PolicyMode(request.mode.upper())
PostPolicyMode(mode) ==
    /\ http_request' = [endpoint |-> "POST /policy/mode", body |-> [mode |-> mode]]
    /\ IF Upper(mode) \in PolicyMode
       THEN /\ policy_manager' = PolicyManager(Upper(mode))
            /\ http_response' =
                   [status |-> 200,
                    body |-> [status |-> "success",
                              policy |-> get_policy_info(PolicyManager(Upper(mode)))]]
       ELSE /\ http_response' = [status |-> 400, body |-> [detail |-> "Invalid policy mode"]]
            /\ UNCHANGED policy_manager
    /\ UNCHANGED <<ENTERPRISE_MODE, pc, request, response, audit_file, metrics, metrics_file,
                   memory, memory_file, verdict_call, standalone_vars, metrics_counter, learning_memory,
                   thread_vars>>

----------------------------------------------------------------------------
(* learning: one LearningMemory with the PolicyUpdater built on it, called   *)
(* directly                                                                  *)

\* the decision recorded by record_blocked_decision calls
LearningBlockedRequest == MakeRequest(Text(1, 0, TRUE, FALSE, {"unsafe"}), 70, "email", <<>>)

\* the (original, override) pairs of record_human_override calls
LearningOverrides == {<<"BLOCK", "ALLOW">>, <<"ALLOW", "BLOCK">>}

\* learning_memory.record_blocked_decision(request, response)
CallRecordBlockedDecision(req) ==
    /\ LET out == record_blocked_decision(learning_memory, memory_file, req,
                                          BuildResponse(req, policy_manager), "ok")
       IN  /\ learning_memory' = out.memory
           /\ memory_file' = out.file
    /\ UNCHANGED <<ENTERPRISE_MODE, policy_manager, pc, request, response, audit_file,
                   metrics, metrics_file, memory, verdict_call, http_request, http_response,
                   metrics_counter, thread_vars, standalone_vars>>

\* learning_memory.record_human_override(original_verdict, override_verdict, reason)
CallRecordHumanOverride(original_verdict, override_verdict) ==
    /\ LET out == record_human_override(learning_memory, memory_file,
                                        original_verdict, override_verdict, "ok")
       IN  /\ learning_memory' = out.memory
           /\ memory_file' = out.file
    /\ UNCHANGED <<ENTERPRISE_MODE, policy_manager, pc, request, response, audit_file,
                   metrics, metrics_file, memory, verdict_call, http_request, http_response,
                   metrics_counter, thread_vars, standalone_vars>>

\* PolicyUpdater(learning_memory).get_adaptive_thresholds()
CallGetAdaptiveThresholds ==
    /\ adaptive_thresholds' = [stats |-> get_statistics(learning_memory),
                               thresholds |-> get_adaptive_thresholds(learning_memory)]
    /\ UNCHANGED <<ENTERPRISE_MODE, policy_manager, pc, request, response, audit_file,
                   metrics, metrics_file, memory, memory_file, verdict_call, adapter_vars,
                   thread_vars, task_queue, agent>>

----------------------------------------------------------------------------
(* baby_agi/llm/agent.py and baby_agi/agent.py: the agent and its run() loop *)

\* LLMAgent.evaluate_objective_completion(...)["is_complete"]
evaluate_objective_completion(llm_model, completed_tasks) ==
    IF llm_model = "local" THEN Len(completed_tasks) > 0 ELSE FALSE

\* how a call into MemoryManager (baby_agi/memory, not among the sources) ends
MemoryManagerOutcomes == {"returned"}

\* the task lists that generate_tasks_for_objective hands to add_tasks
TaskLists ==
    { <<Task("a", 5, {}, 1, 3), Task("b", 10, {}, 2, 3), Task("c", 8, {"a"}, 3, 3)>>,
      <<Task("a", 5, {}, 1, 3), Task("b", 9, {"a"}, 2, 3), Task("c", 7, {}, 3, 3)>>,
      <<Task("a", 5, {}, 1, 3), Task("b", 5, {}, 1, 3), Task("c", 5, {}, 2, 3)>>,
      <<Task("a", 9, {"x"}, 1, 3), Task("b", 5, {}, 2, 3)>>,
      <<Task("a", 9, {}, 1, 1), Task("b", 5, {"a"}, 2, 3), Task("c", 1, {}, 3, 3)>>,
      <<Task("a", 5, {}, 1, 0)>>,
      <<>> }

\* the firewall and the learning components are not touched by the agent
AgentFrame ==
    UNCHANGED <<ENTERPRISE_MODE, policy_manager, pc, request, response, audit_file,
                metrics, metrics_file, memory, memory_file, verdict_call, adapter_vars,
                thread_vars, adaptive_thresholds>>

\* BabyAGI.__init__ (lines 22-56)
NewBabyAGI(llm_model) ==
    /\ agent = NoObject
    /\ agent' = [llm_model |-> llm_model, max_iterations |-> MaxIterations,
                 objective |-> "none", iteration_count |-> 0, is_running |-> FALSE,
                 pc |-> "idle", next_task |-> "None", result |-> "None"]
    /\ task_queue' = EmptyTaskQueue
    /\ AgentFrame

\* BabyAGI.set_objective (lines 64-94)
SetObjective(initial_tasks) ==
    /\ agent # NoObject
    /\ agent.pc = "idle" /\ agent.objective = "none"
    /\ agent' = [agent EXCEPT !.objective = "active"]
    /\ task_queue' = IF initial_tasks # <<>> THEN add_tasks(task_queue, initial_tasks)
                     ELSE task_queue
    /\ AgentFrame

\* BabyAGI.run, lines 103-112: up to the loop
Run ==
    /\ agent # NoObject
    /\ agent.pc = "idle"
    /\ IF agent.objective # "active"
       THEN agent' = [agent EXCEPT !.pc = "returned", !.result = "No active objective"]
       ELSE agent' = [agent EXCEPT !.is_running = TRUE, !.iteration_count = 0, !.pc = "loop"]
    /\ UNCHANGED task_queue
    /\ AgentFrame

\* lines 114-139 and executor.execute line 20: the loop test and one iteration up to
\* the start of the selected task
Iterate ==
    /\ agent # NoObject
    /\ agent.pc = "loop"
    /\ IF ~(agent.is_running /\ agent.iteration_count < agent.max_iterations)
       THEN /\ agent' = [agent EXCEPT !.pc = "exit"]
            /\ UNCHANGED task_queue
       ELSE LET counted == [agent EXCEPT !.iteration_count = @ + 1]
                next_task == get_next_task(task_queue)
            IN  IF evaluate_objective_completion(agent.llm_model,
                                                 get_completed_tasks(task_queue))
                THEN \* _check_objective_completion: complete_objective(), break
                     /\ agent' = [counted EXCEPT !.objective = "completed", !.pc = "exit"]
                     /\ UNCHANGED task_queue
                ELSE IF next_task = NoObject
                THEN /\ agent' = IF ~has_pending_tasks(task_queue)
                                 THEN [counted EXCEPT !.pc = "exit"]
                                 ELSE counted
                     /\ UNCHANGED task_queue
                ELSE /\ agent' = [counted EXCEPT !.pc = "execute", !.next_task = next_task.id]
                     /\ task_queue' =
                            [task_queue EXCEPT
                                !.tasks[TaskIndex(task_queue, next_task.id)] = mark_started(@)]
    /\ AgentFrame

\* executor.execute lines 22-50 and _execute_task lines 169-182: the task body
\* succeeds or fails, the queue is told, the memory manager records it
ExecuteTask(success, recorded) ==
    /\ agent # NoObject
    /\ agent.pc = "execute"
    /\ LET told == IF success THEN mark_task_completed(task_queue, agent.next_task)
                   ELSE mark_task_failed(task_queue, agent.next_task)
       IN  task_queue' = IF recorded = "returned" THEN told
                         ELSE \* except Exception (lines 179-182)
                              mark_task_failed(told, agent.next_task)
    /\ agent' = [agent EXCEPT !.pc = "loop"]
    /\ AgentFrame

\* lines 155-159: is_running = False, the summary is returned
RunExit ==
    /\ agent # NoObject
    /\ agent.pc = "exit"
    /\ agent' = [agent EXCEPT !.is_running = FALSE, !.pc = "returned", !.result = "summary"]
    /\ UNCHANGED task_queue
    /\ AgentFrame

\* BabyAGI.stop (lines 253-256), called by another thread while run() loops
Stop ==
    /\ agent # NoObject
    /\ agent.pc \in {"loop", "execute"}
    /\ agent.is_running
    /\ agent' = [agent EXCEPT !.is_running = FALSE]
    /\ UNCHANGED task_queue
    /\ AgentFrame

----------------------------------------------------------------------------
(* Specifications *)

\* the process has started: no file exists, the default policy manager is installed
Init ==
    /\ ENTERPRISE_MODE \in BOOLEAN
    /\ policy_manager = PolicyManager("GENERAL_AI")
    /\ pc = "start"
    /\ request = <<>>
    /\ response = <<>>
    /\ audit_file = <<>>
    /\ metrics = FreshMetrics
    /\ metrics_file = AbsentFile
    /\ memory = FreshMemory
    /\ memory_file = AbsentFile
    /\ verdict_call = [called |-> FALSE]
    /\ http_request = [endpoint |-> "none", body |-> NoObject]
    /\ http_response = [status |-> 0, body |-> NoObject]
    /\ metrics_counter = FreshMetrics
    /\ learning_memory = FreshMemory
    /\ threads = [t \in Threads |-> IdleThread]
    /\ swapper = [pc |-> "idle", calls |-> 0, obj |-> NoObject]
    /\ adaptive_thresholds = NoObject
    /\ task_queue = NoObject
    /\ agent = NoObject

\* any sequence of at most MaxChecks checks and policy-mode changes, with failing writes
Next ==
    \/ metrics.total_requests < MaxChecks /\ \E req \in Requests : CheckStart(req)
    \/ \E io \in {"ok", "open_error"} : AuditStep(io)
    \/ \E io \in IoOutcomes : MetricsStep(io)
    \/ \E io \in IoOutcomes : LearningStep(io)
    \/ OverlayStep
    \/ \E mode \in PolicyMode : SetPolicyMode(mode)

Spec == Init /\ [][Next]_vars

\* one check of any request of WideRequests under any policy mode, all writes succeeding
NextWide ==
    \/ pc = "start" /\ \E mode \in PolicyMode : SetPolicyMode(mode)
    \/ metrics.total_requests = 0 /\ Idle /\ \E req \in WideRequests : CheckStart(req)
    \/ AuditStep("ok")
    \/ MetricsStep("ok")
    \/ LearningStep("ok")
    \/ OverlayStep

SpecWide == Init /\ [][NextWide]_vars

\* direct calls of the verdict engine
NextVerdict == ~verdict_call.called /\ \E a \in VerdictArgs : CallDetermineVerdict(a)

SpecVerdict == Init /\ [][NextVerdict]_vars

\* MaxThreads threads each call check once on the same interceptor
NextConcurrent ==
    \/ \E t \in Threads, req \in ThreadRequests : T_Begin(t, req)
    \/ \E t \in Threads : T_Step(t)

SpecConcurrent == Init /\ [][NextConcurrent]_vars

\* any sequence of record calls on one LearningMemory, then its PolicyUpdater is
\* asked for the thresholds (a read-only call, made once)
NextLearning ==
    \/ /\ adaptive_thresholds = NoObject
       /\ learning_memory.statistics.total_blocks < MaxLearningBlocks
       /\ CallRecordBlockedDecision(LearningBlockedRequest)
    \/ /\ adaptive_thresholds = NoObject
       /\ learning_memory.statistics.total_overrides < MaxLearningOverrides
       /\ \E p \in LearningOverrides : CallRecordHumanOverride(p[1], p[2])
    \/ /\ adaptive_thresholds = NoObject
       /\ CallGetAdaptiveThresholds

SpecLearning == Init /\ [][NextLearning]_vars

\* an agent is built, given an objective and run once; stop() may arrive at any time
NextAgent ==
    \/ \E llm_model \in {"local", "openai"} : NewBabyAGI(llm_model)
    \/ \E initial_tasks \in TaskLists : SetObjective(initial_tasks)
    \/ Run
    \/ Iterate
    \/ \E success \in BOOLEAN, recorded \in MemoryManagerOutcomes : ExecuteTask(success, recorded)
    \/ RunExit
    \/ Stop

SpecAgent == Init /\ [][NextAgent]_vars

\* run() is executed by a thread that keeps being scheduled; sleep() returns and the
\* executor's subprocess calls carry timeouts, so each step of the loop is completed
SpecAgentLive ==
    /\ SpecAgent
    /\ WF_vars(Iterate)
    /\ WF_vars(\E success \in BOOLEAN, recorded \in MemoryManagerOutcomes :
                   ExecuteTask(success, recorded))
    /\ WF_vars(RunExit)

\* the HTTP adapter serving requests one after the other
\* one check running while another thread calls set_policy_mode
NextPolicySwap ==
    \/ \E req \in ThreadRequests : T_Begin(1, req)
    \/ T_Step(1)
    \/ \E mode \in PolicyMode : S_Init(mode)
    \/ S_SetupEmpty
    \/ S_SetupMode
    \/ S_StoreGlobal

SpecPolicySwap == Init /\ [][NextPolicySwap]_vars

NextHttp ==
    \/ /\ metrics.total_requests < MaxChecks
       /\ \E req \in HttpCheckBodies : PostFirewallCheck(req, "ok")
    \/ GetMetrics
    \/ /\ learning_memory.statistics.total_overrides < MaxOverrides
       /\ \E o \in VerdictStrings, v \in VerdictStrings, io \in {"ok", "open_error"} :
              PostPolicyUpdate(o, v, io)
    \/ \E mode \in ModeStrings : PostPolicyMode(mode)

SpecHttp == Init /\ [][NextHttp]_vars

----------------------------------------------------------------------------
(* Properties of a returned decision *)

\* check has returned its response for `request`
Returned == pc = "check_returned"

\* what the analyzers of check found for the current request
ReqClaims == parse(request.ai_output, request.confidence)
ReqAligned == validate_confidence_alignment(request.confidence, ReqClaims)[1]
ReqEvidencePassed == check_evidence(ReqClaims, request.sources)[1]
ReqRulesPassed == check_rules(ReqClaims, request.ai_output, request.intended_action)[1]
ReqGoverned == requires_mandatory_review(policy_manager, request.intended_action)[1]
ReqHighImpact ==
    requires_human_review_for_high_impact(request.intended_action, request.confidence,
                                          ReqEvidencePassed)[1]
ReqRisk ==
    calculate_risk_score(request.confidence, request.intended_action, ReqClaims,
                         ReqEvidencePassed)
ReqHasFactualClaim == \E i \in 1..Len(ReqClaims) : ReqClaims[i].is_factual
ReqSourcesEmpty == request.sources = <<>> \/ request.sources = NoneValue

\* C1: whenever the policy manager demands mandatory review for the action, in
\* any policy mode and whatever the other checks found (a failed safety rule
\* included), check returns REQUIRE_HUMAN_REVIEW with applied_policies exactly
\* [mandatory_governance_review] and an escalation reason that is not None.
C1_GovernanceSupremacy ==
    (Returned /\ ReqGoverned) =>
        /\ response.verdict = "REQUIRE_HUMAN_REVIEW"
        /\ response.applied_policies = <<"mandatory_governance_review">>
        /\ response.escalation_reason # NoneValue

\* a governed action whose output also violates a safety rule was returned
C1_Witness ==
    /\ Returned /\ ReqGoverned /\ ~ReqRulesPassed
    /\ policy_manager.mode = "HEALTHCARE"
    /\ response.verdict = "REQUIRE_HUMAN_REVIEW"

\* C2: when the action is not governed and the rules check fails, the verdict is
\* BLOCK with applied_policies exactly [safety_rules], whatever the risk score,
\* the evidence result and the confidence are.
C2_SafetySupremacy ==
    (Returned /\ ~ReqGoverned /\ ~ReqRulesPassed) =>
        /\ response.verdict = "BLOCK"
        /\ response.applied_policies = <<"safety_rules">>

\* an ungoverned request that fails both the rules and the evidence check
C2_Witness ==
    /\ Returned /\ ~ReqGoverned /\ ~ReqRulesPassed /\ ~ReqEvidencePassed
    /\ RiskLt(response.risk_score, RISK_THRESHOLD_MEDIUM)
    /\ response.verdict = "BLOCK"

\* C3: when confidence alignment fails but the evidence check passes and no
\* higher rung (governance, safety, critical risk) fires, the verdict is not
\* BLOCK and confidence_alignment is not listed in failed_checks.
C3_EvidenceOverride ==
    (/\ Returned /\ ~ReqAligned /\ ReqEvidencePassed
     /\ ~ReqGoverned /\ ReqRulesPassed
     /\ ~(RiskGe(ReqRisk, RISK_THRESHOLD_HIGH)
          /\ request.intended_action \in {"trade", "execute_code"})) =>
        /\ response.verdict # "BLOCK"
        /\ ~InList("confidence_alignment", response.failed_checks)

\* a misaligned but grounded email was returned
C3_Witness ==
    /\ Returned /\ ~ReqAligned /\ ReqEvidencePassed /\ ~ReqGoverned /\ ReqRulesPassed
    /\ request.intended_action = "email"
    /\ ~response.confidence_alignment
    /\ response.verdict \in {"ALLOW", "REQUIRE_HUMAN_REVIEW"}

\* the rungs of the precedence ladder for the arguments a, highest first
LadderRungs(a) ==
    LET medium == a.risk_score * 100 >= 60 * RiskScale
        high == a.risk_score * 100 >= 80 * RiskScale
        low == a.risk_score * 100 < 30 * RiskScale
    IN  << [fires |-> a.governance_review_required,
            verdict |-> "REQUIRE_HUMAN_REVIEW", policy |-> "mandatory_governance_review"],
           [fires |-> ~a.rules_passed, verdict |-> "BLOCK", policy |-> "safety_rules"],
           [fires |-> high /\ a.intended_action \in {"trade", "execute_code"},
            verdict |-> "BLOCK", policy |-> "high_risk_block"],
           [fires |-> ~a.evidence_passed,
            verdict |-> IF medium THEN "BLOCK" ELSE "REQUIRE_EVIDENCE",
            policy |-> "evidence_requirement"],
           [fires |-> medium, verdict |-> "REQUIRE_HUMAN_REVIEW", policy |-> "risk_based_review"],
           [fires |-> a.high_impact_review_required,
            verdict |-> "REQUIRE_HUMAN_REVIEW", policy |-> "high_impact_policy"],
           [fires |-> TRUE, verdict |-> "ALLOW",
            policy |-> IF low THEN "low_risk_allow" ELSE "acceptable_risk_allow"] >>

\* the first rung that fires
FirstRung(a) ==
    LET rungs == LadderRungs(a)
        i == CHOOSE k \in 1..Len(rungs) : rungs[k].fires /\ \A j \in 1..(k - 1) : ~rungs[j].fires
    IN  rungs[i]

\* C4: for every combination of its inputs determine_verdict returns the verdict
\* of the first matching rung of the ladder governance, safety rules, critical
\* risk for trade/execute_code, evidence gate, medium risk, high-impact policy,
\* allow; and applied_policies holds exactly that rung's tag.
C4_FirstMatchLadder ==
    verdict_call.called =>
        /\ verdict_call.result.verdict = FirstRung(verdict_call.args).verdict
        /\ verdict_call.result.applied_policies = <<FirstRung(verdict_call.args).policy>>

\* the evidence gate blocked at medium risk although the high-impact predicate and
\* the alignment failure also held
C4_Witness ==
    /\ verdict_call.called
    /\ ~verdict_call.args.evidence_passed /\ ~verdict_call.args.confidence_aligned
    /\ verdict_call.args.high_impact_review_required
    /\ verdict_call.args.rules_passed /\ ~verdict_call.args.governance_review_required
    /\ verdict_call.args.risk_score * 100 = 60 * RiskScale
    /\ verdict_call.result.verdict = "BLOCK"
    /\ verdict_call.result.applied_policies = <<"evidence_requirement">>

C6_UngroundedAnswerBlocked ==
    (/\ Returned /\ request.intended_action = "answer" /\ request.confidence = 90
     /\ ReqHasFactualClaim /\ ReqSourcesEmpty /\ ReqRulesPassed) =>
        /\ response.verdict = "BLOCK"
        /\ InList("evidence", response.failed_checks)

\* C7: an answer whose rules check and evidence check pass is returned ALLOW in
\* every policy mode and at every confidence, and confidence_alignment is not in
\* failed_checks.
C7_GroundedAnswerAllowed ==
    (Returned /\ request.intended_action = "answer" /\ ReqRulesPassed /\ ReqEvidencePassed) =>
        /\ response.verdict = "ALLOW"
        /\ ~InList("confidence_alignment", response.failed_checks)

\* a grounded answer with failing alignment, six claims and confidence 0.61 was allowed
C7_Witness ==
    /\ Returned /\ request.intended_action = "answer" /\ ReqRulesPassed /\ ReqEvidencePassed
    /\ ReqHasFactualClaim /\ request.sources # <<>> /\ request.sources # NoneValue
    /\ ~ReqAligned
    /\ request.confidence = 61
    /\ Len(ReqClaims) >= 6
    /\ policy_manager.mode = "LEGAL"
    /\ response.verdict = "ALLOW"

\* (1 - confidence) * action_impact * evidence_factor * min(1.3, 1 + 0.05 * claim_count)
\* as a numerator over RiskScale, before clamping
ReqRiskProduct ==
    LET impact == CASE request.intended_action = "answer" -> 20
                    [] request.intended_action = "email" -> 50
                    [] request.intended_action = "trade" -> 90
                    [] request.intended_action = "execute_code" -> 95
        evidence_factor == IF ReqEvidencePassed THEN 10 ELSE 15
        claim_count == Len(ReqClaims)
        claim_factor == IF 100 + 5 * claim_count > 130 THEN 130 ELSE 100 + 5 * claim_count
    IN  (100 - request.confidence) * impact * evidence_factor * claim_factor

\* C20: for every valid request check returns a verdict in {ALLOW, BLOCK,
\* REQUIRE_EVIDENCE, REQUIRE_HUMAN_REVIEW} and a risk_score in [0, 1], equal to
\* clamp01((1 - confidence) * action_impact * evidence_factor
\*         * min(1.3, 1 + 0.05 * claim_count)).
C20_ResponseRange ==
    Returned =>
        /\ response.verdict \in {"ALLOW", "BLOCK", "REQUIRE_EVIDENCE", "REQUIRE_HUMAN_REVIEW"}
        /\ response.risk_score >= 0 /\ response.risk_score <= RiskScale
        /\ response.risk_score
               = IF ReqRiskProduct > RiskScale THEN RiskScale
                 ELSE IF ReqRiskProduct < 0 THEN 0 ELSE ReqRiskProduct

\* an execute_code request with confidence 0 and six claims: the product is
\* 1.235 and the returned risk_score is 1
C20_Witness ==
    /\ Returned
    /\ request.intended_action = "execute_code" /\ request.confidence = 0
    /\ Len(ReqClaims) = 6
    /\ ReqRiskProduct > RiskScale
    /\ response.risk_score = RiskScale

ResponseBuilt ==
    pc \in {"check_audit", "check_metrics", "check_learning", "check_overlay", "check_returned"}

\* C22: check never produces ALLOW together with risk_score >= 0.6, with
\* enterprise mode on or off; so the enterprise overlay (ALLOW and risk >= 0.7)
\* never rewrites a verdict and the returned verdict is the one
\* determine_verdict produced.
C22_OverlayNeverRewrites ==
    [][/\ ResponseBuilt' =>
              ~(response'.verdict = "ALLOW" /\ RiskGe(response'.risk_score, 60))
       /\ pc = "check_overlay" => response' = response
       /\ pc' = "check_returned" =>
              response'.verdict = BuildResponse(request', policy_manager').verdict
      ]_vars

\* with enterprise mode on, an email whose risk is at least 0.6 went through the
\* overlay with the REQUIRE_HUMAN_REVIEW that the risk-based rung had given it
C22_Witness ==
    /\ Returned /\ ENTERPRISE_MODE
    /\ request.intended_action = "email"
    /\ RiskGe(response.risk_score, 60)
    /\ response.verdict = "REQUIRE_HUMAN_REVIEW"
    /\ response.applied_policies = <<"risk_based_review">>

\* the part of a response that C23 speaks of
Observable(resp) ==
    <<resp.verdict, resp.risk_score, resp.failed_checks, resp.applied_policies>>

\* C23: for every valid request the verdict, risk_score, failed_checks and
\* applied_policies returned by check are the same under all four policy modes,
\* and each of the four valid actions has the same mandatory-review membership
\* in every mode.
C23_PolicyModeNonInterference ==
    Returned =>
        /\ \A mode \in PolicyMode :
               Observable(response) = Observable(BuildResponse(request, PolicyManager(mode)))
        /\ \A a \in IntendedAction : \A m1 \in PolicyMode, m2 \in PolicyMode :
               requires_mandatory_review(PolicyManager(m1), a)[1]
                   = requires_mandatory_review(PolicyManager(m2), a)[1]

\* a trade checked in HEALTHCARE mode: the escalation reason names the mode, the
\* verdict, risk, failed checks and policies are those of GENERAL_AI
C23_Witness ==
    /\ Returned
    /\ policy_manager.mode = "HEALTHCARE"
    /\ request.intended_action = "trade"
    /\ response.verdict = "REQUIRE_HUMAN_REVIEW"
    /\ response.escalation_reason
           # BuildResponse(request, PolicyManager("GENERAL_AI")).escalation_reason
    /\ Observable(response) = Observable(BuildResponse(request, PolicyManager("GENERAL_AI")))

\* C25: in every response of check, confidence_alignment is in failed_checks if
\* and only if evidence is in failed_checks: a failed evidence check implies a
\* failed alignment check, and the alignment failure is reported only when
\* evidence failed.
C25_AlignmentReportedWithEvidence ==
    Returned =>
        /\ InList("confidence_alignment", response.failed_checks)
               <=> InList("evidence", response.failed_checks)
        /\ InList("evidence", response.failed_checks) <=> ~ReqEvidencePassed
        /\ ~ReqEvidencePassed => ~ReqAligned
        /\ response.confidence_alignment = ReqAligned

\* an answer at confidence 0.61 with a factual claim and no valid source
\* reports both failures
C25_Witness ==
    /\ Returned
    /\ request.intended_action = "answer" /\ request.confidence = 61
    /\ ~ReqEvidencePassed /\ ~ReqAligned
    /\ InList("evidence", response.failed_checks)
    /\ InList("confidence_alignment", response.failed_checks)
    /\ response.verdict = "REQUIRE_EVIDENCE"

----------------------------------------------------------------------------
(* Properties of the side effects *)

\* a step that emits a side effect: an audit append, a metrics record or a learning record
SideEffectEmitted ==
    \/ audit_file' # audit_file
    \/ metrics' # metrics \/ metrics_file' # metrics_file
    \/ memory' # memory \/ memory_file' # memory_file

\* check has still to run its enterprise overlay
OverlayPending == pc \in {"check_audit", "check_metrics", "check_learning", "check_overlay"}

\* C8: within check no side effect (audit append, metrics record, learning
\* record) is emitted before the enterprise overlay step has run.
C8_OverlayPrecedesSideEffects == [][SideEffectEmitted => ~OverlayPending]_vars

\* the fields of a response that the caller compares
Decision(resp) ==
    [verdict |-> resp.verdict, risk_score |-> resp.risk_score,
     failed_checks |-> resp.failed_checks, applied_policies |-> resp.applied_policies]

\* C9: when the audit append, the metrics persist or the learning-memory persist
\* fails with an I/O error, check still returns normally (no exception leaves it)
\* and the verdict, risk_score, failed_checks and applied_policies it returns are
\* those of the response produced when no write fails.
C9_WriteFailuresSwallowed ==
    /\ pc # "check_raised"
    /\ Returned =>
           Decision(response) =
               Decision(EnterpriseOverlay(ENTERPRISE_MODE, BuildResponse(request, policy_manager)))

\* a BLOCK was returned although the audit append, the metrics write and the
\* learning-memory write of that check all failed
C9_Witness ==
    /\ Returned /\ ENTERPRISE_MODE
    /\ metrics.total_requests = 1
    /\ audit_file = <<>>
    /\ metrics_file = PartialFile
    /\ memory_file = PartialFile
    /\ response.verdict = "BLOCK"

\* the four verdict counters added up
VerdictCounterSum(m) ==
    m.blocked_requests + m.allowed_requests + m.human_reviews + m.evidence_required

\* C10: every check passes the metrics step exactly once, and that step adds 1 to
\* total_requests, to by_verdict[verdict] and to by_action[action] (verdict being
\* the verdict check returns) and to exactly one of blocked_requests,
\* allowed_requests, human_reviews, evidence_required; no other step touches the
\* counters, total_requests equals the sum of the four in every state, and no
\* counter decreases.
C10_MetricsCounting ==
    [][/\ pc = "check_audit" => pc' = "check_metrics"
       /\ pc' = "check_metrics" => pc = "check_audit"
       /\ pc = "check_metrics" =>
              /\ pc' = "check_learning"
              /\ metrics'.total_requests = metrics.total_requests + 1
              /\ DictGet(metrics'.by_verdict, response.verdict, 0)
                     = DictGet(metrics.by_verdict, response.verdict, 0) + 1
              /\ DictGet(metrics'.by_action, request.intended_action, 0)
                     = DictGet(metrics.by_action, request.intended_action, 0) + 1
              /\ VerdictCounterSum(metrics') = VerdictCounterSum(metrics) + 1
       /\ pc # "check_metrics" => metrics' = metrics
       /\ pc' = "check_returned" => response'.verdict = response.verdict
       /\ metrics'.total_requests = VerdictCounterSum(metrics')
       /\ metrics'.blocked_requests >= metrics.blocked_requests
       /\ metrics'.allowed_requests >= metrics.allowed_requests
       /\ metrics'.human_reviews >= metrics.human_reviews
       /\ metrics'.evidence_required >= metrics.evidence_required
       /\ metrics'.hallucination_blocks >= metrics.hallucination_blocks
       /\ \A v \in DOMAIN metrics.by_verdict :
              v \in DOMAIN metrics'.by_verdict /\ metrics'.by_verdict[v] >= metrics.by_verdict[v]
       /\ \A a \in DOMAIN metrics.by_action :
              a \in DOMAIN metrics'.by_action /\ metrics'.by_action[a] >= metrics.by_action[a]
      ]_vars

\* two checks were counted, one blocked and one sent back for evidence
C10_Witness ==
    /\ Returned
    /\ metrics.total_requests = 2
    /\ metrics.blocked_requests = 1 /\ metrics.evidence_required = 1
    /\ DictGet(metrics.by_action, "email", 0) = 1 /\ DictGet(metrics.by_action, "answer", 0) = 1

\* C13: a check adds exactly 1 to hallucination_blocks if and only if its verdict
\* is BLOCK, evidence is in failed_checks and the request confidence is above
\* 0.7; no other check and no other step changes the counter, and
\* hallucination_blocks <= blocked_requests in every state.
C13_HallucinationCounter ==
    [][/\ pc = "check_metrics" =>
              metrics'.hallucination_blocks =
                  metrics.hallucination_blocks
                  + (IF /\ response.verdict = "BLOCK"
                        /\ InList("evidence", response.failed_checks)
                        /\ request.confidence > 70
                     THEN 1 ELSE 0)
       /\ pc # "check_metrics" => metrics'.hallucination_blocks = metrics.hallucination_blocks
       /\ pc' = "check_returned" => response'.verdict = response.verdict
       /\ metrics'.hallucination_blocks <= metrics'.blocked_requests
      ]_vars

\* of two blocked checks with missing evidence only the one above 0.7 was counted
C13_Witness ==
    /\ Returned
    /\ metrics.blocked_requests = 2 /\ metrics.hallucination_blocks = 1
    /\ request.confidence = 70
    /\ response.verdict = "BLOCK" /\ InList("evidence", response.failed_checks)

\* C14: every check passes the learning step once; that step appends exactly one
\* entry to blocked_decisions and adds 1 to total_blocks if the verdict is BLOCK
\* and leaves the learning state unchanged otherwise; no other step of check
\* touches it.  Hence total_blocks = length of blocked_decisions in every state,
\* and between checks both equal the number of BLOCK verdicts issued.
C14_LearningTracksBlocks ==
    [][/\ pc = "check_learning" =>
              /\ pc' = "check_overlay"
              /\ IF response.verdict = "BLOCK"
                 THEN /\ Len(memory'.blocked_decisions) = Len(memory.blocked_decisions) + 1
                      /\ SubSeq(memory'.blocked_decisions, 1, Len(memory.blocked_decisions))
                             = memory.blocked_decisions
                      /\ memory'.statistics.total_blocks = memory.statistics.total_blocks + 1
                      /\ memory' = [memory EXCEPT
                                       !.blocked_decisions = memory'.blocked_decisions,
                                       !.statistics.total_blocks = @ + 1]
                 ELSE memory' = memory
       /\ pc' = "check_learning" => pc = "check_metrics"
       /\ pc # "check_learning" => memory' = memory
       /\ pc' = "check_returned" => response'.verdict = response.verdict
       /\ memory'.statistics.total_blocks = Len(memory'.blocked_decisions)
       /\ pc' \in {"check_overlay", "check_returned", "mode_set"} =>
              memory'.statistics.total_blocks = DictGet(metrics'.by_verdict, "BLOCK", 0)
      ]_vars

\* a blocked check was recorded and a later allowed check left the memory alone
C14_Witness ==
    /\ Returned
    /\ metrics.total_requests = 2
    /\ memory.statistics.total_blocks = 1 /\ Len(memory.blocked_decisions) = 1
    /\ memory.blocked_decisions[1].verdict = "BLOCK"
    /\ response.verdict = "ALLOW"

\* the audit step of a check: the log afterwards is the log before it plus the
\* record of this check
AuditAppended == audit_file' = Append(audit_file, AuditRecord(request, response))

----------------------------------------------------------------------------
(* Properties of concurrent callers *)

\* every thread has returned from its check
AllReturned == \A t \in Threads : threads[t].pc = "returned"

\* C11: when MaxThreads check calls run concurrently on one interceptor, with
\* their loads and stores on the counters interleaving arbitrarily, then after
\* all have returned total_requests has grown by exactly MaxThreads and
\* total_blocks by exactly the number of BLOCK verdicts: no increment is lost.
C11_NoLostUpdate ==
    AllReturned =>
        /\ metrics.total_requests = MaxThreads
        /\ memory.statistics.total_blocks =
               Cardinality({t \in Threads : threads[t].response.verdict = "BLOCK"})

\* the request supplies at least one non-empty source
ReqSuppliesSource ==
    /\ ~ReqSourcesEmpty
    /\ \E i \in 1..Len(request.sources) : Strip(request.sources[i]) # ""

\* C19: for trade and execute_code the high-impact predicate fires
\* (high_impact_review_required is in failed_checks) if and only if
\* confidence < 0.8 or the request supplies no non-empty source; for answer and
\* email it never fires.
C19_HighImpactPredicate ==
    Returned =>
        (InList("high_impact_review_required", response.failed_checks)
            <=> /\ request.intended_action \in {"trade", "execute_code"}
                /\ (request.confidence < 80 \/ ~ReqSuppliesSource))

\* the managers a completed constructor produces
FullManagers == {PolicyManager(mode) : mode \in PolicyMode}

\* C17: a check that interleaves with set_policy_mode calls takes its governance
\* decision (review flag and mode named in the reason) from exactly one
\* PolicyManager that was the current one at an instant during the check: the
\* manager it reads is the fully initialised global of that instant, it keeps
\* that manager for the rest of the check, and the decision it returns is the
\* one that manager gives; the global name never refers to a half-initialised
\* manager and the check never fails on a missing attribute.
C17_PolicySwapAtomic ==
    [][/\ policy_manager' \in FullManagers
       /\ \A t \in Threads :
            /\ threads'[t].pc # "raised"
            /\ (threads[t].pc = "get_policy_manager" /\ threads'[t].pc # threads[t].pc) =>
                   /\ threads'[t].policy_manager = policy_manager
                   /\ policy_manager \in FullManagers
            /\ threads[t].pc \notin {"idle", "get_policy_manager"} =>
                   threads'[t].policy_manager = threads[t].policy_manager
            /\ (threads[t].pc = "requires_mandatory_review" /\ threads'[t].pc # threads[t].pc) =>
                   threads'[t].governance
                       = requires_mandatory_review(threads[t].policy_manager,
                                                   threads[t].request.intended_action)
            /\ threads[t].pc \notin {"idle", "get_policy_manager", "requires_mandatory_review"} =>
                   threads'[t].governance = threads[t].governance
            /\ threads'[t].pc = "returned" =>
                   /\ threads'[t].response
                          = BuildResponseWith(threads'[t].request, threads'[t].governance)
                   /\ threads'[t].governance
                          \in {requires_mandatory_review(pm, threads'[t].request.intended_action) :
                                   pm \in FullManagers}
      ]_vars

\* a trade check returned the decision of the HEALTHCARE manager it read after
\* one swap, while a second swap has since made LEGAL the current mode
C17_Witness ==
    /\ threads[1].pc = "returned"
    /\ threads[1].request.intended_action = "trade"
    /\ threads[1].governance = requires_mandatory_review(PolicyManager("HEALTHCARE"), "trade")
    /\ InList("governance_mandatory_review", threads[1].response.failed_checks)
    /\ policy_manager = PolicyManager("LEGAL")
    /\ swapper.calls = 2

----------------------------------------------------------------------------
(* Properties of the HTTP adapter *)

\* C12: GET /metrics reports the current metrics: started on fresh metrics, after
\* k completed POST /firewall/check calls (the interceptor has counted k of
\* them) the reported total_requests is k.
C12_MetricsEndpointCurrent ==
    http_request.endpoint = "GET /metrics" =>
        http_response.body.counters.total_requests = metrics.total_requests

\* the step served POST /policy/update with two valid verdict names
OverrideRecorded ==
    /\ http_request'.endpoint = "POST /policy/update"
    /\ http_request'.body.original_verdict \in Verdict
    /\ http_request'.body.override_verdict \in Verdict

\* C15: record_human_override(original, override) always appends one entry to
\* human_overrides and adds 1 to total_overrides; it adds 1 to
\* false_positive_count iff (original, override) = (BLOCK, ALLOW), 1 to
\* false_negative_count iff it is (ALLOW, BLOCK), changes neither otherwise, and
\* never changes total_blocks or blocked_decisions.
C15_OverrideClassification ==
    [][OverrideRecorded =>
          LET original == http_request'.body.original_verdict
              override == http_request'.body.override_verdict
              old == learning_memory
              new == learning_memory'
          IN  /\ Len(new.human_overrides) = Len(old.human_overrides) + 1
              /\ SubSeq(new.human_overrides, 1, Len(old.human_overrides)) = old.human_overrides
              /\ new.human_overrides[Len(new.human_overrides)].original_verdict = original
              /\ new.human_overrides[Len(new.human_overrides)].override_verdict = override
              /\ new.statistics.total_overrides = old.statistics.total_overrides + 1
              /\ new.statistics.false_positive_count =
                     old.statistics.false_positive_count
                     + (IF original = "BLOCK" /\ override = "ALLOW" THEN 1 ELSE 0)
              /\ new.statistics.false_negative_count =
                     old.statistics.false_negative_count
                     + (IF original = "ALLOW" /\ override = "BLOCK" THEN 1 ELSE 0)
              /\ new.statistics.total_blocks = old.statistics.total_blocks
              /\ new.blocked_decisions = old.blocked_decisions
              /\ memory' = memory
      ]_vars

\* a BLOCK overridden to ALLOW was recorded as a false positive
C15_Witness ==
    /\ http_request.endpoint = "POST /policy/update"
    /\ http_request.body = [original_verdict |-> "BLOCK", override_verdict |-> "ALLOW"]
    /\ http_response.status = 200
    /\ learning_memory.statistics.total_overrides = 1
    /\ learning_memory.statistics.false_positive_count = 1
    /\ Len(learning_memory.false_positives) = 1

\* the PolicyMode name a mode string spells when case is ignored
ModeSpelled ==
    [str \in ModeStrings |->
        CASE str = "GENERAL_AI" -> "GENERAL_AI"
          [] str = "Healthcare" -> "HEALTHCARE"
          [] str = "legal" -> "LEGAL"
          [] OTHER -> "none"]

\* C18: a POST /policy/mode request whose mode string is not one of the four
\* PolicyMode names (case-insensitively) is rejected with a client error and
\* leaves the current policy manager and its mode unchanged; a request with a
\* valid name makes that mode the current one.
C18_PolicyModeChange ==
    [][http_request'.endpoint = "POST /policy/mode" =>
          LET name == ModeSpelled[http_request'.body.mode]
          IN  IF name \in PolicyMode
              THEN /\ http_response'.status = 200
                   /\ policy_manager' = PolicyManager(name)
                   /\ http_response'.body.policy.mode = name
              ELSE /\ http_response'.status \in 400..499
                   /\ policy_manager' = policy_manager
      ]_vars

\* "legal " was rejected while HEALTHCARE, set by an earlier request spelled
\* "Healthcare", stays the current mode
C18_Witness ==
    /\ http_request.endpoint = "POST /policy/mode"
    /\ http_request.body.mode = "legal "
    /\ http_response.status = 400
    /\ policy_manager = PolicyManager("HEALTHCARE")

\* C24: in the HTTP adapter the persisted learning memory loses no update:
\* whenever MEMORY_FILE is rewritten, its total_blocks is the number of BLOCK
\* verdicts recorded by the checks and its total_overrides the number of
\* overrides recorded by POST /policy/update, and neither persisted count is
\* lower than it was in the document before.
C24_PersistedMemoryLosesNoUpdate ==
    [][memory_file' # memory_file =>
          /\ memory_file'.state = "document"
          /\ memory_file'.doc.statistics.total_blocks = memory'.statistics.total_blocks
          /\ memory_file'.doc.statistics.total_overrides
                 = learning_memory'.statistics.total_overrides
          /\ memory_file.state = "document" =>
                 /\ memory_file'.doc.statistics.total_blocks
                        >= memory_file.doc.statistics.total_blocks
                 /\ memory_file'.doc.statistics.total_overrides
                        >= memory_file.doc.statistics.total_overrides
      ]_vars

----------------------------------------------------------------------------
(* Properties of the learning memory and the adaptive tuner *)

C27_FalsePositiveRateInUnitInterval ==
    LET stats == learning_memory.statistics
        rate == get_false_positive_rate(learning_memory)
    IN  /\ stats.total_blocks = 0 => rate[1] = 0
        /\ stats.total_blocks > 0 => rate = <<stats.false_positive_count, stats.total_blocks>>
        /\ stats.false_positive_count <= stats.total_blocks
        /\ 0 <= rate[1] /\ rate[1] <= rate[2]
        /\ adaptive_thresholds # NoObject =>
               adaptive_thresholds.stats.false_positive_rate[1]
                   <= adaptive_thresholds.stats.false_positive_rate[2]

----------------------------------------------------------------------------
(* Properties of the agent's task queue and of its run() loop *)

\* the tasks of the queue before and after a step, where both exist
TaskSteps ==
    IF task_queue = NoObject \/ task_queue' = NoObject THEN {}
    ELSE { i \in 1..Len(task_queue.tasks) : i <= Len(task_queue'.tasks) }

Eligible(queue) ==
    { i \in 1..Len(queue.tasks) :
          /\ queue.tasks[i].status = "pending"
          /\ queue.tasks[i].attempts < queue.tasks[i].max_attempts
          /\ queue.tasks[i].depends_on \subseteq queue.completed_task_ids }

BlockedForever(queue) ==
    /\ \E i \in 1..Len(queue.tasks) : queue.tasks[i].status = "pending"
    /\ \A i \in 1..Len(queue.tasks) :
           /\ queue.tasks[i].status # "in_progress"
           /\ queue.tasks[i].status = "pending" =>
                  \E dep_id \in queue.tasks[i].depends_on :
                      \/ TaskIndex(queue, dep_id) = 0
                      \/ dep_id \in queue.failed_task_ids

\* run() has been entered with an objective and has not returned
Running == agent # NoObject /\ agent.pc \in {"loop", "execute", "exit"}

\* run() never counts more than max_iterations iterations, returns, and has is_running
\* false when it has returned
RunTerminates ==
    /\ [](agent # NoObject =>
              /\ agent.iteration_count <= agent.max_iterations
              /\ agent.pc = "returned" => ~agent.is_running)
    /\ Running ~> (agent # NoObject /\ agent.pc = "returned")

\* the loop of a run that was not stopped is left with blocked PENDING tasks
LeavesLoopBlocked ==
    /\ agent # NoObject
    /\ agent.pc = "loop" /\ agent.is_running
    /\ BlockedForever(task_queue)
    /\ agent'.pc = "exit"

====
